---- MODULE Spec2Model ----
(***************************************************************************)
(* A model of kway-go: the k-way merge of ordered sequences (merge.go) and *)
(* the loser tree behind it (tree.go).                                     *)
(*                                                                         *)
(* The program is single-threaded: the merge pulls batches from its        *)
(* sources (iter.Pull2) and yields batches, or single values through       *)
(* unbuffer, to the consumer.  The model keeps the position of that one    *)
(* thread of control in pc, the inputs of the call in mode and seqs, and   *)
(* everything the consumer was handed in out.                              *)
(***************************************************************************)
EXTENDS Integers, Sequences, FiniteSets, Bags, TLC

(***************************************************************************)
(* Bounds of the model.                                                    *)
(***************************************************************************)
\* Keys of the merged values are 0..MaxKey.
MaxKey == 2
\* At most MaxLen values in one source.
MaxLen == 2
\* At most MaxTotal values in all the sources of one merge together.
MaxTotal == 4
\* The tree path is explored for up to MaxK sources.
MaxK == 3
\* At most MaxFew values in all the sources of a merge whose termination
\* is checked.
MaxFew == 1
\* At most MaxErrs errors reported by all the sources of one merge.
MaxErrs == 2
\* A scaled-down capacity of the internal buffers, with which buffers fill
\* up and batch boundaries are crossed by sources of a few values.
SmallBuffer == 2
MaxEmpty == 2
MaxLive == 2
MaxIndex == 31
MaxHeap == 5

\* const bufferSize = 128 (merge.go:24).
bufferSize == 128

(***************************************************************************)
(* Values.  The element type T is generic: the model merges records that   *)
(* carry a key, which cmp compares, and the source they came from, which   *)
(* cmp ignores (MergeFunc with a comparison on one field).                 *)
(***************************************************************************)
Elem(k, s) == [key |-> k, src |-> s]

\* var value T: the zero value of the element type.
Zero == Elem(0, 0)

\* The nil error is 0, a non-nil error is 1.
NoErr == 0

Err == 1

\* cmp(a, b): negative, zero or positive.
cmp(a, b) == IF a.key < b.key THEN -1 ELSE IF a.key > b.key THEN 1 ELSE 0

\* A pair yielded by a single-value sequence (iter.Seq2[T, error]).
Item(v, e) == [val |-> v, err |-> e]

\* A pair yielded by a sequence of slices (iter.Seq2[[]T, error]).
Batch(vs, e) == [vals |-> vs, err |-> e]

(***************************************************************************)
(* Helpers on sequences.                                                   *)
(***************************************************************************)
RECURSIVE Concat(_)
Concat(ss) == IF ss = <<>> THEN <<>> ELSE Head(ss) \o Concat(Tail(ss))

RECURSIVE BagOf(_)
BagOf(s) == IF s = <<>> THEN EmptyBag ELSE SetToBag({Head(s)}) (+) BagOf(Tail(s))

IsSorted(s) == \A i \in 1..(Len(s) - 1) : cmp(s[i], s[i + 1]) <= 0

Take(s, n) == SubSeq(s, 1, n)


RECURSIVE SumLen(_)
SumLen(ss) == IF ss = <<>> THEN 0 ELSE Len(Head(ss)) + SumLen(Tail(ss))

Range(s) == { s[i] : i \in 1..Len(s) }

(***************************************************************************)
(* The sources.  seqs[i] is what source i yields when it is ranged over:   *)
(* a sequence of Items under Merge/MergeFunc, a sequence of Batches under  *)
(* MergeSlice/MergeSliceFunc.  pull[i] is the state of the pull iterator   *)
(* (iter.Pull2) over it and, under Merge, of the buffer adapter around it. *)
(* size is the capacity of the internal buffers in the build at hand:      *)
(* bufferSize, or the scaled-down SmallBuffer.                             *)
(***************************************************************************)
VARIABLES mode, seqs, size, pull, pc, tree, tn, m2, pend, out, stopped

vars == <<mode, seqs, size, pull, pc, tree, tn, m2, pend, out, stopped>>

K == Len(seqs)

Sources == 0..(K - 1)

\* The pull state of a source nothing was pulled from yet.
\*   pos   the pairs of seqs[i] consumed so far
\*   buf   buf[:n] of the buffer adapter (n = Len(buf))
\*   fin   the adapter is suspended in its final yield (merge.go:185)
\*   done  next() has reported ok = false
\*   calls the calls of next(), stops the calls of stop()
NewPull == [pos |-> 0, buf |-> <<>>, fin |-> FALSE, done |-> FALSE,
            calls |-> 0, stops |-> 0]

\* What a call of next() gives: the pull state after it and the triple
\* (values, err, ok).
Pulled(st, vs, e, ok) == [st |-> st, vals |-> vs, err |-> e, ok |-> ok]

\* next() of iter.Pull2 over a sequence of slices: the next pair of the
\* sequence, or ok = false once it has returned or was stopped.
nextSlice(seq, st) ==
    IF st.done \/ st.stops > 0 \/ st.pos >= Len(seq)
    THEN Pulled([st EXCEPT !.done = TRUE], <<>>, NoErr, FALSE)
    ELSE Pulled([st EXCEPT !.pos = @ + 1],
                seq[st.pos + 1].vals, seq[st.pos + 1].err, TRUE)

\* buffer without the final yield of the values that are left when the
\* source has ended.
bufferNoFlush(seq, st) ==
    IF st.done \/ st.stops > 0 \/ st.fin
    THEN Pulled([st EXCEPT !.done = TRUE], <<>>, NoErr, FALSE)
    ELSE LET errs == {p \in (st.pos + 1)..Len(seq) : seq[p].err # NoErr}
             e == IF errs = {} THEN Len(seq) + 1
                  ELSE CHOOSE p \in errs : \A q \in errs : p <= q
             f == st.pos + (size - Len(st.buf))
             vals(to) == st.buf \o [j \in 1..(to - st.pos) |-> seq[st.pos + j].val]
         IN IF e <= Len(seq) /\ e <= f
            THEN Pulled([st EXCEPT !.pos = e, !.buf = vals(e - 1)],
                        <<>>, seq[e].err, TRUE)
            ELSE IF f <= Len(seq)
            THEN Pulled([st EXCEPT !.pos = f, !.buf = <<>>], vals(f), NoErr, TRUE)
         ELSE Pulled([st EXCEPT !.pos = Len(seq), !.buf = vals(Len(seq)),
                                !.done = TRUE],
                     <<>>, NoErr, FALSE)

\* buffer that forgets the values it holds when the source reports an
\* error.
bufferForgets(seq, st) ==
    IF st.done \/ st.stops > 0 \/ st.fin
    THEN Pulled([st EXCEPT !.done = TRUE], <<>>, NoErr, FALSE)
    ELSE LET errs == {p \in (st.pos + 1)..Len(seq) : seq[p].err # NoErr}
             e == IF errs = {} THEN Len(seq) + 1
                  ELSE CHOOSE p \in errs : \A q \in errs : p <= q
             f == st.pos + (size - Len(st.buf))
             vals(to) == st.buf \o [j \in 1..(to - st.pos) |-> seq[st.pos + j].val]
         IN IF e <= Len(seq) /\ e <= f
            THEN Pulled([st EXCEPT !.pos = e, !.buf = <<>>],
                        <<>>, seq[e].err, TRUE)
            ELSE IF f <= Len(seq)
            THEN Pulled([st EXCEPT !.pos = f, !.buf = <<>>], vals(f), NoErr, TRUE)
         ELSE IF Len(vals(Len(seq))) > 0
         THEN Pulled([st EXCEPT !.pos = Len(seq), !.buf = vals(Len(seq)),
                                !.fin = TRUE],
                     vals(Len(seq)), NoErr, TRUE)
         ELSE Pulled([st EXCEPT !.pos = Len(seq), !.done = TRUE],
                     <<>>, NoErr, FALSE)

\* buffer that yields its batch one value before buf is full.
bufferShort(seq, st) ==
    IF st.done \/ st.stops > 0 \/ st.fin
    THEN Pulled([st EXCEPT !.done = TRUE], <<>>, NoErr, FALSE)
    ELSE LET errs == {p \in (st.pos + 1)..Len(seq) : seq[p].err # NoErr}
             e == IF errs = {} THEN Len(seq) + 1
                  ELSE CHOOSE p \in errs : \A q \in errs : p <= q
             f == st.pos + ((size - 1) - Len(st.buf))
             vals(to) == st.buf \o [j \in 1..(to - st.pos) |-> seq[st.pos + j].val]
         IN IF e <= Len(seq) /\ e <= f
            THEN Pulled([st EXCEPT !.pos = e, !.buf = vals(e - 1)],
                        <<>>, seq[e].err, TRUE)
            ELSE IF f <= Len(seq)
            THEN Pulled([st EXCEPT !.pos = f, !.buf = <<>>], vals(f), NoErr, TRUE)
         ELSE IF Len(vals(Len(seq))) > 0
         THEN Pulled([st EXCEPT !.pos = Len(seq), !.buf = vals(Len(seq)),
                                !.fin = TRUE],
                     vals(Len(seq)), NoErr, TRUE)
         ELSE Pulled([st EXCEPT !.pos = Len(seq), !.done = TRUE],
                     <<>>, NoErr, FALSE)

\* buffer(bufferSize, seq) resumed by next(): it ranges over the single
\* values of seq until it yields a full buffer, an error, or the final
\* partial buffer.  The pairs from st.pos on are values up to the first
\* error, at index e; the value at index f is the one that fills the
\* buffer (n == len(buf)); vals(to) is buf[:n] once the pairs up to index
\* to are read.  Whichever of e and f comes first is the next yield, and
\* when the source ends before both, what is left is yielded if there is
\* any.
buffer(seq, st) ==
    IF st.done \/ st.stops > 0 \/ st.fin
    THEN Pulled([st EXCEPT !.done = TRUE], <<>>, NoErr, FALSE)
    ELSE LET errs == {p \in (st.pos + 1)..Len(seq) : seq[p].err # NoErr}
             e == IF errs = {} THEN Len(seq) + 1
                  ELSE CHOOSE p \in errs : \A q \in errs : p <= q
             f == st.pos + (size - Len(st.buf))
             vals(to) == st.buf \o [j \in 1..(to - st.pos) |-> seq[st.pos + j].val]
         IN IF e <= Len(seq) /\ e <= f
            THEN Pulled([st EXCEPT !.pos = e, !.buf = vals(e - 1)],
                        <<>>, seq[e].err, TRUE)
            ELSE IF f <= Len(seq)
            THEN Pulled([st EXCEPT !.pos = f, !.buf = <<>>], vals(f), NoErr, TRUE)
         ELSE IF Len(vals(Len(seq))) > 0
         THEN Pulled([st EXCEPT !.pos = Len(seq), !.buf = vals(Len(seq)),
                                !.fin = TRUE],
                     vals(Len(seq)), NoErr, TRUE)
         ELSE Pulled([st EXCEPT !.pos = Len(seq), !.done = TRUE],
                     <<>>, NoErr, FALSE)

\* The next function that loses the error of the pair it returns.
nextSilent(md, seq, st) ==
    LET r == IF md = "Merge" THEN buffer(seq, st) ELSE nextSlice(seq, st)
    IN [r EXCEPT !.st.calls = @ + 1, !.err = NoErr]

\* The next function of source i as the merge sees it: under MergeFunc
\* every source is wrapped in buffer (merge.go:91-97), under MergeSliceFunc
\* it is pulled as it is.
next(md, seq, st) ==
    LET r == IF md = "Merge" THEN buffer(seq, st) ELSE nextSlice(seq, st)
    IN [r EXCEPT !.st.calls = @ + 1]

\* nextNonEmptyValues that returns the first result of next() as it is.
nextFirstValues(md, seq, st) == next(md, seq, st)

RECURSIVE nextNonEmptyValues(_, _, _)
nextNonEmptyValues(md, seq, st) ==
    LET r == next(md, seq, st)
    IN IF Len(r.vals) > 0 \/ r.err # NoErr \/ ~r.ok
       THEN r
       ELSE nextNonEmptyValues(md, seq, r.st)

\* stop() of iter.Pull2.
stop(st) == [st EXCEPT !.stops = @ + 1]

(***************************************************************************)
(* The loser tree (tree.go).  Slices and arrays are indexed from 0 as in   *)
(* the source; the values of a cursor are a sequence whose head is         *)
(* values[0].                                                              *)
(***************************************************************************)
node(i, v) == [index |-> i, value |-> v]

\* node{index: -1, value: -1}
Vacant == node(-1, -1)

cursor(vs, e) == [values |-> vs, err |-> e]

\* The quotient a / b of Go for b > 0: the division truncates toward zero.
quo(a, b) == IF a >= 0 THEN a \div b ELSE -((-a) \div b)

\* parent with the division rounded down: parent(0) = -1.
parentFloor(i) == (i - 1) \div 2

parent(i) == quo(i - 1, 2)

left(i) == (2 * i) + 1

right(i) == (2 * i) + 2

\* makeTree whose leaves are numbered within the back half of the nodes:
\* node{index: i, value: i}.
makeTreeTail(k) ==
    [cursors |-> [i \in 0..(k - 1) |-> cursor(<<>>, NoErr)],
     nodes   |-> [i \in 0..(2 * k - 1) |->
                    IF i < k THEN Vacant ELSE node(i - k, i - k)],
     count   |-> k,
     winner  |-> Vacant]

\* makeTree over k sources: no source is pulled yet.
makeTree(k) ==
    [cursors |-> [i \in 0..(k - 1) |-> cursor(<<>>, NoErr)],
     nodes   |-> [i \in 0..(2 * k - 1) |->
                    IF i < k THEN Vacant ELSE node(i, i - k)],
     count   |-> k,
     winner  |-> Vacant]

\* The (loser, winner) pair a match returns; oob is set when the code
\* would index an empty slice (a run-time panic).
Game(l, w) == [loser |-> l, winner |-> w, oob |-> FALSE]

\* playGame with the comparison turned round: the higher head wins.
playGameHigher(cursors, n1, n2) ==
    IF n1.value < 0 THEN Game(n1, n2)
    ELSE IF n2.value < 0 THEN Game(n2, n1)
    ELSE LET c1 == cursors[n1.value]
             c2 == cursors[n2.value]
         IN IF c1.err # NoErr THEN Game(n2, n1)
            ELSE IF c2.err # NoErr THEN Game(n1, n2)
            ELSE IF c1.values = <<>> \/ c2.values = <<>>
            THEN [Game(n1, n2) EXCEPT !.oob = TRUE]
            ELSE IF cmp(c1.values[1], c2.values[1]) > 0
            THEN Game(n2, n1)
            ELSE Game(n1, n2)

\* playGame in which n1 wins the equal heads too.
playGameTieFirst(cursors, n1, n2) ==
    IF n1.value < 0 THEN Game(n1, n2)
    ELSE IF n2.value < 0 THEN Game(n2, n1)
    ELSE LET c1 == cursors[n1.value]
             c2 == cursors[n2.value]
         IN IF c1.err # NoErr THEN Game(n2, n1)
            ELSE IF c2.err # NoErr THEN Game(n1, n2)
            ELSE IF c1.values = <<>> \/ c2.values = <<>>
            THEN [Game(n1, n2) EXCEPT !.oob = TRUE]
            ELSE IF cmp(c1.values[1], c2.values[1]) <= 0
            THEN Game(n2, n1)
            ELSE Game(n1, n2)

playGame(cursors, n1, n2) ==
    IF n1.value < 0 THEN Game(n1, n2)
    ELSE IF n2.value < 0 THEN Game(n2, n1)
    ELSE LET c1 == cursors[n1.value]
             c2 == cursors[n2.value]
         IN IF c1.err # NoErr THEN Game(n2, n1)
            ELSE IF c2.err # NoErr THEN Game(n1, n2)
            ELSE IF c1.values = <<>> \/ c2.values = <<>>
            THEN [Game(n1, n2) EXCEPT !.oob = TRUE]
            ELSE IF cmp(c1.values[1], c2.values[1]) < 0
            THEN Game(n2, n1)
            ELSE Game(n1, n2)

\* The one element of a set of one element; it names an intermediate
\* result so that it is computed once.
The(S) == CHOOSE x \in S : TRUE

\* The end of t.initialize with the match played the other way round:
\* t.playGame(n2, n1, cmp).
initializeJoinSwapped(cursors, r1, r2, i) ==
    IF r1.w.index < 0 /\ r2.w.index < 0
    THEN [nodes |-> r2.nodes, w |-> r2.nodes[i], oob |-> r1.oob \/ r2.oob]
    ELSE The({[nodes |-> [r2.nodes EXCEPT ![i] = g.loser], w |-> g.winner,
               oob |-> r1.oob \/ r2.oob \/ g.oob] :
              g \in {playGame(cursors, r2.w, r1.w)}})

\* The end of t.initialize that stores the winner of the match in the
\* slot, and not the loser.
initializeJoinStoresWinner(cursors, r1, r2, i) ==
    IF r1.w.index < 0 /\ r2.w.index < 0
    THEN [nodes |-> r2.nodes, w |-> r2.nodes[i], oob |-> r1.oob \/ r2.oob]
    ELSE The({[nodes |-> [r2.nodes EXCEPT ![i] = g.winner], w |-> g.winner,
               oob |-> r1.oob \/ r2.oob \/ g.oob] :
              g \in {playGame(cursors, r1.w, r2.w)}})

\* The end of t.initialize at slot i (tree.go:55-63) once both subtrees are
\* built: r1 and r2 are what the builds of the left and the right subtree
\* returned.
initializeJoin(cursors, r1, r2, i) ==
    IF r1.w.index < 0 /\ r2.w.index < 0
    THEN [nodes |-> r2.nodes, w |-> r2.nodes[i], oob |-> r1.oob \/ r2.oob]
    ELSE The({[nodes |-> [r2.nodes EXCEPT ![i] = g.loser], w |-> g.winner,
               oob |-> r1.oob \/ r2.oob \/ g.oob] :
              g \in {playGame(cursors, r1.w, r2.w)}})

\* t.initialize(i, cmp): the nodes after the build of the subtree at i and
\* the winner of that subtree.
RECURSIVE initialize(_, _, _)
initialize(cursors, nodes, i) ==
    IF i >= 2 * K
    THEN [nodes |-> nodes, w |-> Vacant, oob |-> FALSE]
    ELSE The(UNION {{initializeJoin(cursors, r1, r2, i) :
                        r2 \in {initialize(cursors, r1.nodes, right(i))}} :
                    r1 \in {initialize(cursors, nodes, left(i))}})

\* The first pulls of tree.next (tree.go:95-106), cursors i..K-1: every
\* source is pulled for its first non-empty batch; a source that has none
\* is stopped and its leaf vacated.
RECURSIVE firstPulls(_, _, _)
\* The first pulls with a source that has no batch left in the count
\* of the sources: its leaf is vacated and t.count stays.
firstPullsCounts(t, pl, i) ==
    IF i >= K THEN [t |-> t, pull |-> pl]
    ELSE The(UNION {{firstPulls(t1, p1, i + 1) :
                        t1 \in {IF r.ok
                                THEN [t EXCEPT !.cursors[i] = cursor(r.vals, r.err)]
                                ELSE [t EXCEPT !.nodes[i + K] = Vacant]},
                        p1 \in {[pl EXCEPT ![i] = IF r.ok THEN r.st
                                                  ELSE stop(r.st)]}} :
                    r \in {nextNonEmptyValues(mode, seqs[i + 1], pl[i])}})

\* The first pulls that leave the index in the leaf of a source that has
\* no batch: node{index: i + K, value: -1}.
firstPullsKeepsIndex(t, pl, i) ==
    IF i >= K THEN [t |-> t, pull |-> pl]
    ELSE The(UNION {{firstPulls(t1, p1, i + 1) :
                        t1 \in {IF r.ok
                                THEN [t EXCEPT !.cursors[i] = cursor(r.vals, r.err)]
                                ELSE [t EXCEPT !.nodes[i + K] = node(i + K, -1),
                                               !.count = @ - 1]},
                        p1 \in {[pl EXCEPT ![i] = IF r.ok THEN r.st
                                                  ELSE stop(r.st)]}} :
                    r \in {nextNonEmptyValues(mode, seqs[i + 1], pl[i])}})

firstPulls(t, pl, i) ==
    IF i >= K THEN [t |-> t, pull |-> pl]
    ELSE The(UNION {{firstPulls(t1, p1, i + 1) :
                        t1 \in {IF r.ok
                                THEN [t EXCEPT !.cursors[i] = cursor(r.vals, r.err)]
                                ELSE [t EXCEPT !.nodes[i + K] = Vacant,
                                               !.count = @ - 1]},
                        p1 \in {[pl EXCEPT ![i] = IF r.ok THEN r.st
                                                  ELSE stop(r.st)]}} :
                    r \in {nextNonEmptyValues(mode, seqs[i + 1], pl[i])}})

\* The replay loop of tree.next (tree.go:141-159) from slot offset up to
\* the root: the nodes after it and the winner that reaches the root.
RECURSIVE replay(_, _, _, _)
\* The replay that compares no heads: the winner gives way only when its
\* own leaf has been vacated.
replayKeeps(cursors, nodes, winner, offset) ==
    LET player == nodes[offset]
        swap == player.value >= 0 /\ winner.value < 0
        nodes1  == IF swap THEN [nodes EXCEPT ![offset] = winner] ELSE nodes
        winner1 == IF swap THEN player ELSE winner
    IN IF offset = 0
       THEN [nodes |-> nodes1, winner |-> winner1]
       ELSE replay(cursors, nodes1, winner1, parent(offset))

\* The replay that lets a winner whose source ran out stay the winner.
replayVacant(cursors, nodes, winner, offset) ==
    LET player == nodes[offset]
        swap == /\ player.value >= 0
                /\ winner.value >= 0
                /\ LET c1 == cursors[player.value]
                       c2 == cursors[winner.value]
                   IN \/ Len(c1.values) = 0
                      \/ /\ Len(c2.values) # 0
                         /\ cmp(c1.values[1], c2.values[1]) < 0
        nodes1  == IF swap THEN [nodes EXCEPT ![offset] = winner] ELSE nodes
        winner1 == IF swap THEN player ELSE winner
    IN IF offset = 0
       THEN [nodes |-> nodes1, winner |-> winner1]
       ELSE replay(cursors, nodes1, winner1, parent(offset))

\* The replay that walks down the slots one by one instead of from
\* parent to parent.
replaySlots(cursors, nodes, winner, offset) ==
    LET player == nodes[offset]
        swap == /\ player.value >= 0
                /\ \/ winner.value < 0
                   \/ LET c1 == cursors[player.value]
                          c2 == cursors[winner.value]
                      IN \/ Len(c1.values) = 0
                         \/ /\ Len(c2.values) # 0
                            /\ cmp(c1.values[1], c2.values[1]) < 0
        nodes1  == IF swap THEN [nodes EXCEPT ![offset] = winner] ELSE nodes
        winner1 == IF swap THEN player ELSE winner
    IN IF offset = 0
       THEN [nodes |-> nodes1, winner |-> winner1]
       ELSE replay(cursors, nodes1, winner1, offset - 1)

replay(cursors, nodes, winner, offset) ==
    LET player == nodes[offset]
        swap == /\ player.value >= 0
                /\ \/ winner.value < 0
                   \/ LET c1 == cursors[player.value]
                          c2 == cursors[winner.value]
                      IN \/ Len(c1.values) = 0
                         \/ /\ Len(c2.values) # 0
                            /\ cmp(c1.values[1], c2.values[1]) < 0
        nodes1  == IF swap THEN [nodes EXCEPT ![offset] = winner] ELSE nodes
        winner1 == IF swap THEN player ELSE winner
    IN IF offset = 0
       THEN [nodes |-> nodes1, winner |-> winner1]
       ELSE replay(cursors, nodes1, winner1, parent(offset))

(***************************************************************************)
(* Yielding to the consumer.  pend is the pair a merge is yielding, with   *)
(* the place the merge goes on from when the yield returns true (ret) and  *)
(* when it returns false (brk).  out is what the consumer was handed.      *)
(***************************************************************************)
NoPend == [vals |-> <<>>, err |-> NoErr, ret |-> "", brk |-> ""]

NoTn == [winner |-> Vacant, n |-> 0, buf |-> <<>>, err |-> NoErr]

\* The locals of merge2: values[j], ok[j] and i[j] are values0/values1,
\* ok0/ok1 and i0/i1; buffer is buffer[:offset].
NoM2 == [values |-> [j \in 0..1 |-> <<>>], ok |-> [j \in 0..1 |-> FALSE],
         i |-> [j \in 0..1 |-> 0], buffer |-> <<>>]

\* yield(vs, e) called by merge or merge2.  Under MergeFunc the callee is
\* the function unbuffer passes to seq (merge.go:192-203), which returns
\* true at once when there is no error and no value.
yield(vs, e, ret, brk) ==
    IF mode = "Merge" /\ vs = <<>> /\ e = NoErr
    THEN pc' = ret /\ pend' = NoPend
    ELSE pc' = "yield" /\ pend' = [vals |-> vs, err |-> e, ret |-> ret, brk |-> brk]

\* unbuffer that pairs the error with the first value of the batch when
\* there is one.
unbufferItemFirst(p) ==
    IF p.err # NoErr
    THEN Item(IF p.vals = <<>> THEN Zero ELSE p.vals[1], p.err)
    ELSE Item(p.vals[1], NoErr)

\* What unbuffer hands to the consumer next: the error with the zero
\* value first, then the values one by one.
unbufferItem(p) ==
    IF p.err # NoErr THEN Item(Zero, p.err) ELSE Item(p.vals[1], NoErr)

\* unbuffer that returns after the error of a batch, its values unseen.
unbufferRestNone(p) ==
    IF p.err # NoErr THEN [p EXCEPT !.err = NoErr, !.vals = <<>>]
    ELSE [p EXCEPT !.vals = Tail(@)]

unbufferRest(p) ==
    IF p.err # NoErr THEN [p EXCEPT !.err = NoErr]
    ELSE [p EXCEPT !.vals = Tail(@)]

\* One call of the consumer's yield.  Under MergeSliceFunc the consumer is
\* handed the pair as it is; under MergeFunc it is handed the next single
\* pair by unbuffer.  The consumer answers true (go on) or false (stop);
\* calling it again after it answered false is a run-time panic.
Deliver ==
    /\ pc = "yield"
    /\ IF stopped
       THEN /\ pc' = "panic"
            /\ UNCHANGED <<pend, out, stopped>>
       ELSE \E cont \in BOOLEAN :
            LET rest == IF mode = "Merge" THEN unbufferRest(pend) ELSE NoPend
                last == rest.vals = <<>> /\ rest.err = NoErr
            IN /\ out' = Append(out, IF mode = "Merge" THEN unbufferItem(pend)
                                     ELSE Batch(pend.vals, pend.err))
               /\ stopped' = ~cont
               /\ IF ~cont THEN pc' = pend.brk /\ pend' = NoPend
                  ELSE IF last THEN pc' = pend.ret /\ pend' = NoPend
                  ELSE pc' = pc /\ pend' = rest
    /\ UNCHANGED <<mode, seqs, size, pull, tree, tn, m2>>

(***************************************************************************)
(* MergeFunc and MergeSliceFunc: the choice of the path by the number of   *)
(* sources.                                                                *)
(***************************************************************************)
\* MergeFunc without the case of one source: one source goes the way of
\* three.
DispatchNoOne ==
    /\ pc = "start"
    /\ pc' = IF K = 2 THEN "m2.next0" ELSE "tree.next"
    /\ tree' = IF K = 2 THEN tree ELSE makeTree(K)
    /\ UNCHANGED <<mode, seqs, size, pull, tn, m2, pend, out, stopped>>

Dispatch ==
    /\ pc = "start"
    /\ pc' = IF K = 1 THEN "one" ELSE IF K = 2 THEN "m2.next0" ELSE "tree.next"
    /\ tree' = IF K = 1 \/ K = 2 THEN tree ELSE makeTree(K)
    /\ UNCHANGED <<mode, seqs, size, pull, tn, m2, pend, out, stopped>>

\* One source is returned as it is (merge.go:86-88, 156-157): the consumer
\* ranges over the source itself.
One ==
    /\ pc = "one"
    /\ IF pull[0].pos >= Len(seqs[1])
       THEN pc' = "done" /\ UNCHANGED <<pull, out, stopped>>
       ELSE \E cont \in BOOLEAN :
            /\ out' = Append(out, seqs[1][pull[0].pos + 1])
            /\ pull' = [pull EXCEPT ![0].pos = @ + 1]
            /\ stopped' = ~cont
            /\ pc' = IF cont THEN pc ELSE "done"
    /\ UNCHANGED <<mode, seqs, size, tree, tn, m2, pend>>

(***************************************************************************)
(* merge (merge.go:295-311) over the loser tree.                           *)
(***************************************************************************)
\* tree.next and merge with an error that ends the merge: the error is
\* yielded and merge returns.
treeReturnFatal(t, w, buf, e) ==
    /\ tree' = [t EXCEPT !.winner = w]
    /\ tn' = NoTn
    /\ IF e = NoErr /\ Len(buf) = 0
       THEN pc' = "tree.exit" /\ pend' = NoPend
       ELSE yield(buf, e, IF e # NoErr THEN "tree.exit" ELSE "tree.next",
                  "tree.exit")

\* merge that goes on with the next call of tree.next when yield has
\* returned false.
treeReturnGoesOn(t, w, buf, e) ==
    /\ tree' = [t EXCEPT !.winner = w]
    /\ tn' = NoTn
    /\ IF e = NoErr /\ Len(buf) = 0
       THEN pc' = "tree.exit" /\ pend' = NoPend
       ELSE yield(buf, e, "tree.next", "tree.next")

\* tree.next that returns without storing its winner: t.winner stays what
\* it was.
treeReturnUnstored(t, w, buf, e) ==
    /\ tree' = [t EXCEPT !.winner = tree.winner]
    /\ tn' = NoTn
    /\ IF e = NoErr /\ Len(buf) = 0
       THEN pc' = "tree.exit" /\ pend' = NoPend
       ELSE yield(buf, e, "tree.next", "tree.exit")

\* tree.next returns (n, err) with winner w: t.winner = winner, and merge
\* returns when there is no value and no error, and yields otherwise.
treeReturn(t, w, buf, e) ==
    /\ tree' = [t EXCEPT !.winner = w]
    /\ tn' = NoTn
    /\ IF e = NoErr /\ Len(buf) = 0
       THEN pc' = "tree.exit" /\ pend' = NoPend
       ELSE yield(buf, e, "tree.next", "tree.exit")

\* The entry of tree.next without the test of t.count: a tree with no
\* cursor left goes into the loop.
TreeNextNoCount ==
    /\ pc = "tree.next"
    /\ IF size = 0
       THEN /\ pc' = "tree.exit"
            /\ UNCHANGED <<tree, tn, pull, pend>>
       ELSE IF tree.winner.index >= 0
       THEN /\ pc' = "tree.loop"
            /\ tn' = [NoTn EXCEPT !.winner = tree.winner]
            /\ UNCHANGED <<tree, pull, pend>>
       ELSE \E f \in {firstPulls(tree, pull, 0)} :
            \E b \in {initialize(f.t.cursors, f.t.nodes, 0)} :
               /\ pull' = f.pull
               /\ IF f.t.count = 0
                  THEN /\ tree' = f.t
                       /\ pc' = "tree.exit"
                       /\ UNCHANGED <<tn, pend>>
                  ELSE /\ tree' = [f.t EXCEPT !.nodes = b.nodes]
                       /\ tn' = [NoTn EXCEPT !.winner = b.w]
                       /\ pc' = IF b.oob THEN "panic" ELSE "tree.loop"
                       /\ UNCHANGED pend
    /\ UNCHANGED <<mode, seqs, size, m2, out, stopped>>

\* The entry of tree.next (tree.go:89-111): nothing left, or the first
\* pulls and the build, or straight into the loop.
TreeNext ==
    /\ pc = "tree.next"
    /\ IF size = 0 \/ tree.count = 0
       THEN /\ pc' = "tree.exit"
            /\ UNCHANGED <<tree, tn, pull, pend>>
       ELSE IF tree.winner.index >= 0
       THEN /\ pc' = "tree.loop"
            /\ tn' = [NoTn EXCEPT !.winner = tree.winner]
            /\ UNCHANGED <<tree, pull, pend>>
       ELSE \E f \in {firstPulls(tree, pull, 0)} :
            \E b \in {initialize(f.t.cursors, f.t.nodes, 0)} :
               /\ pull' = f.pull
               /\ IF f.t.count = 0
                  THEN /\ tree' = f.t
                       /\ pc' = "tree.exit"
                       /\ UNCHANGED <<tn, pend>>
                  ELSE /\ tree' = [f.t EXCEPT !.nodes = b.nodes]
                       /\ tn' = [NoTn EXCEPT !.winner = b.w]
                       /\ pc' = IF b.oob THEN "panic" ELSE "tree.loop"
                       /\ UNCHANGED pend
    /\ UNCHANGED <<mode, seqs, size, m2, out, stopped>>

\* The loop of tree.next that vacates the leaf of a source that ran out
\* and leaves t.count as it is.
TreeLoopKeepsCount ==
    /\ pc = "tree.loop"
    /\ IF tn.winner.value < 0
       THEN /\ pc' = "panic"
            /\ UNCHANGED <<tree, tn, pull, pend>>
       ELSE
       LET w  == tn.winner
           v  == w.value
           c0 == tree.cursors[v]
           has == Len(c0.values) > 0
           buf1 == IF has THEN Append(tn.buf, c0.values[1]) ELSE tn.buf
           c1 == IF has THEN [c0 EXCEPT !.values = Tail(@)] ELSE c0
           t1 == [tree EXCEPT !.cursors[v] = c1]
       IN IF Len(c1.values) = 0 /\ c1.err # NoErr
          THEN \* the pending error of the cursor is returned
               /\ treeReturn([t1 EXCEPT !.cursors[v].err = NoErr], w, buf1, c1.err)
               /\ UNCHANGED pull
          ELSE
          LET r  == nextNonEmptyValues(mode, seqs[v + 1], pull[v])
              refill == Len(c1.values) = 0
              t2 == IF ~refill THEN t1
                    ELSE IF r.ok
                    THEN [t1 EXCEPT !.cursors[v] = cursor(r.vals, r.err)]
                    ELSE [t1 EXCEPT !.nodes[w.index] = Vacant]
              w2 == IF refill /\ ~r.ok THEN [w EXCEPT !.value = -1] ELSE w
              g  == replay(t2.cursors, t2.nodes, w2, parent(w2.index))
              t3 == [t2 EXCEPT !.nodes = g.nodes]
          IN /\ pull' = IF ~refill THEN pull
                        ELSE IF r.ok THEN [pull EXCEPT ![v] = r.st]
                        ELSE [pull EXCEPT ![v] = stop(r.st)]
             /\ IF refill /\ ~r.ok /\ t2.count = 0
                THEN treeReturn(t2, w2, buf1, NoErr)
                ELSE IF Len(buf1) >= size
                THEN treeReturn(t3, g.winner, buf1, NoErr)
                ELSE /\ tree' = t3
                     /\ tn' = [tn EXCEPT !.winner = g.winner, !.buf = buf1,
                                         !.n = Len(buf1)]
                     /\ pc' = pc
                     /\ UNCHANGED pend
    /\ UNCHANGED <<mode, seqs, size, m2, out, stopped>>

\* One round of the loop of tree.next (tree.go:113-160): the value at the
\* head of the winner is written to buf, the winner is refilled when it
\* has run out, and the games on the way to the root are replayed.
TreeLoop ==
    /\ pc = "tree.loop"
    /\ IF tn.winner.value < 0
       THEN /\ pc' = "panic"
            /\ UNCHANGED <<tree, tn, pull, pend>>
       ELSE
       LET w  == tn.winner
           v  == w.value
           c0 == tree.cursors[v]
           has == Len(c0.values) > 0
           buf1 == IF has THEN Append(tn.buf, c0.values[1]) ELSE tn.buf
           c1 == IF has THEN [c0 EXCEPT !.values = Tail(@)] ELSE c0
           t1 == [tree EXCEPT !.cursors[v] = c1]
       IN IF Len(c1.values) = 0 /\ c1.err # NoErr
          THEN \* the pending error of the cursor is returned
               /\ treeReturn([t1 EXCEPT !.cursors[v].err = NoErr], w, buf1, c1.err)
               /\ UNCHANGED pull
          ELSE
          LET r  == nextNonEmptyValues(mode, seqs[v + 1], pull[v])
              refill == Len(c1.values) = 0
              t2 == IF ~refill THEN t1
                    ELSE IF r.ok
                    THEN [t1 EXCEPT !.cursors[v] = cursor(r.vals, r.err)]
                    ELSE [t1 EXCEPT !.nodes[w.index] = Vacant, !.count = @ - 1]
              w2 == IF refill /\ ~r.ok THEN [w EXCEPT !.value = -1] ELSE w
              g  == replay(t2.cursors, t2.nodes, w2, parent(w2.index))
              t3 == [t2 EXCEPT !.nodes = g.nodes]
          IN /\ pull' = IF ~refill THEN pull
                        ELSE IF r.ok THEN [pull EXCEPT ![v] = r.st]
                        ELSE [pull EXCEPT ![v] = stop(r.st)]
             /\ IF refill /\ ~r.ok /\ t2.count = 0
                THEN treeReturn(t2, w2, buf1, NoErr)
                ELSE IF Len(buf1) >= size
                THEN treeReturn(t3, g.winner, buf1, NoErr)
                ELSE /\ tree' = t3
                     /\ tn' = [tn EXCEPT !.winner = g.winner, !.buf = buf1,
                                         !.n = Len(buf1)]
                     /\ pc' = pc
                     /\ UNCHANGED pend
    /\ UNCHANGED <<mode, seqs, size, m2, out, stopped>>

\* merge returns: the deferred tree.stop() stops every cursor.
TreeStop ==
    /\ pc = "tree.exit"
    /\ pull' = [i \in Sources |-> stop(pull[i])]
    /\ pc' = "done"
    /\ UNCHANGED <<mode, seqs, size, tree, tn, m2, pend, out, stopped>>

(***************************************************************************)
(* merge2 (merge.go:207-293), the merge of exactly two sources.            *)
(***************************************************************************)
offset == Len(m2.buffer)

\* The pull of merge2 with the error of the source dropped.
m2PullSilent(j, ret, brk) ==
    LET r == next(mode, seqs[j + 1], pull[j])
    IN /\ pull' = [pull EXCEPT ![j] = r.st]
       /\ m2' = [m2 EXCEPT !.values[j] = r.vals, !.ok[j] = r.ok]
       /\ pc' = ret /\ pend' = NoPend

\* The pull of merge2 that goes on when the yield of the error has
\* returned false.
m2PullGoesOn(j, ret, brk) ==
    LET r == next(mode, seqs[j + 1], pull[j])
    IN /\ pull' = [pull EXCEPT ![j] = r.st]
       /\ m2' = [m2 EXCEPT !.values[j] = r.vals, !.ok[j] = r.ok]
       /\ IF r.err # NoErr
          THEN yield(<<>>, r.err, ret, ret)
          ELSE pc' = ret /\ pend' = NoPend

\* values0, err, ok0 = next0() (j = 0) or values1, err, ok1 = next1()
\* (j = 1), followed by `err != nil && !yield(nil, err)`.
m2Pull(j, ret, brk) ==
    LET r == next(mode, seqs[j + 1], pull[j])
    IN /\ pull' = [pull EXCEPT ![j] = r.st]
       /\ m2' = [m2 EXCEPT !.values[j] = r.vals, !.ok[j] = r.ok]
       /\ IF r.err # NoErr
          THEN yield(<<>>, r.err, ret, brk)
          ELSE pc' = ret /\ pend' = NoPend

\* The first pull of each source (merge.go:215-223).
M2Next ==
    /\ \/ pc = "m2.next0" /\ m2Pull(0, "m2.next1", "m2.exit")
       \/ pc = "m2.next1" /\ m2Pull(1, "m2.loop", "m2.exit")
    /\ UNCHANGED <<mode, seqs, size, tree, tn, out, stopped>>

\* for ok0 && ok1 { i0 := 0; i1 := 0 (merge.go:228-230).
M2Loop ==
    /\ pc = "m2.loop"
    /\ IF m2.ok[0] /\ m2.ok[1]
       THEN /\ m2' = [m2 EXCEPT !.i = [j \in 0..1 |-> 0]]
            /\ pc' = "m2.inner"
       ELSE /\ m2' = m2
            /\ pc' = "m2.flush"
    /\ UNCHANGED <<mode, seqs, size, pull, tree, tn, pend, out, stopped>>

\* The switch on cmp(v0, v1) with the equal heads written second source
\* first.
compareSecondFirst(m) ==
    LET v0 == m.values[0][m.i[0] + 1]
        v1 == m.values[1][m.i[1] + 1]
        diff == cmp(v0, v1)
    IN IF diff < 0
       THEN [m EXCEPT !.buffer = Append(@, v0), !.i[0] = @ + 1]
       ELSE IF diff > 0
       THEN [m EXCEPT !.buffer = Append(@, v1), !.i[1] = @ + 1]
       ELSE [m EXCEPT !.buffer = @ \o <<v1, v0>>,
                      !.i[0] = @ + 1, !.i[1] = @ + 1]

\* The switch on cmp(v0, v1) (merge.go:243-259).
compare(m) ==
    LET v0 == m.values[0][m.i[0] + 1]
        v1 == m.values[1][m.i[1] + 1]
        diff == cmp(v0, v1)
    IN IF diff < 0
       THEN [m EXCEPT !.buffer = Append(@, v0), !.i[0] = @ + 1]
       ELSE IF diff > 0
       THEN [m EXCEPT !.buffer = Append(@, v1), !.i[1] = @ + 1]
       ELSE [m EXCEPT !.buffer = @ \o <<v0, v1>>,
                      !.i[0] = @ + 1, !.i[1] = @ + 1]

\* The round of the inner loop that yields the output buffer only when
\* no slot is free.
M2InnerLate ==
    /\ pc \in {"m2.inner", "m2.cmp"}
    /\ IF pc = "m2.inner" /\ ~(m2.i[0] < Len(m2.values[0]) /\ m2.i[1] < Len(m2.values[1]))
       THEN /\ pc' = "m2.refill0"
            /\ UNCHANGED <<m2, pend>>
       ELSE IF pc = "m2.inner" /\ offset >= size
       THEN /\ yield(m2.buffer, NoErr, "m2.cmp", "m2.exit")
            /\ m2' = [m2 EXCEPT !.buffer = <<>>]
       ELSE /\ m2' = compare(m2)
            /\ pc' = "m2.inner"
            /\ UNCHANGED pend
    /\ UNCHANGED <<mode, seqs, size, pull, tree, tn, out, stopped>>

\* One round of the inner loop (merge.go:232-260): the output buffer is
\* yielded first when fewer than two slots are free, then the heads are
\* compared.  pc = "m2.cmp" is the round going on after that yield.
M2Inner ==
    /\ pc \in {"m2.inner", "m2.cmp"}
    /\ IF pc = "m2.inner" /\ ~(m2.i[0] < Len(m2.values[0]) /\ m2.i[1] < Len(m2.values[1]))
       THEN /\ pc' = "m2.refill0"
            /\ UNCHANGED <<m2, pend>>
       ELSE IF pc = "m2.inner" /\ offset + 1 >= size
       THEN /\ yield(m2.buffer, NoErr, "m2.cmp", "m2.exit")
            /\ m2' = [m2 EXCEPT !.buffer = <<>>]
       ELSE /\ m2' = compare(m2)
            /\ pc' = "m2.inner"
            /\ UNCHANGED pend
    /\ UNCHANGED <<mode, seqs, size, pull, tree, tn, out, stopped>>

\* The refill that pulls the next batch of a source wherever the batch
\* at hand was read to.
M2RefillAlways ==
    /\ \E j \in 0..1 :
        /\ pc = (IF j = 0 THEN "m2.refill0" ELSE "m2.refill1")
        /\ LET ret == IF j = 0 THEN "m2.refill1" ELSE "m2.loop"
               r == next(mode, seqs[j + 1], pull[j])
           IN /\ pull' = [pull EXCEPT ![j] = r.st]
              /\ m2' = [m2 EXCEPT !.values[j] = r.vals, !.ok[j] = r.ok,
                                  !.i[j] = 0]
              /\ IF r.err # NoErr
                 THEN yield(<<>>, r.err, ret, "m2.exit")
                 ELSE pc' = ret /\ pend' = NoPend
    /\ UNCHANGED <<mode, seqs, size, tree, tn, out, stopped>>

\* The refill of a batch that was read to its end (merge.go:262-274).
M2Refill ==
    /\ \E j \in 0..1 :
        /\ pc = (IF j = 0 THEN "m2.refill0" ELSE "m2.refill1")
        /\ LET ret == IF j = 0 THEN "m2.refill1" ELSE "m2.loop"
           IN IF m2.i[j] = Len(m2.values[j])
              THEN LET r == next(mode, seqs[j + 1], pull[j])
                   IN /\ pull' = [pull EXCEPT ![j] = r.st]
                      /\ m2' = [m2 EXCEPT !.values[j] = r.vals, !.ok[j] = r.ok,
                                          !.i[j] = 0]
                      /\ IF r.err # NoErr
                         THEN yield(<<>>, r.err, ret, "m2.exit")
                         ELSE pc' = ret /\ pend' = NoPend
              ELSE /\ pc' = ret
                   /\ UNCHANGED <<pull, m2, pend>>
    /\ UNCHANGED <<mode, seqs, size, tree, tn, out, stopped>>

\* After the loop the output buffer is yielded (merge.go:277-279).
M2Flush ==
    /\ pc = "m2.flush"
    /\ IF offset > 0
       THEN yield(m2.buffer, NoErr, "m2.drain0", "m2.exit")
       ELSE pc' = "m2.drain0" /\ pend' = NoPend
    /\ UNCHANGED <<mode, seqs, size, pull, tree, tn, m2, out, stopped>>

\* The loops that yield what is left of one source (merge.go:281-291):
\* `for ok && yield(values, nil)`, whose body pulls the next batch.
M2Drain ==
    /\ \E j \in 0..1 :
        LET at == IF j = 0 THEN "m2.drain0" ELSE "m2.drain1"
            body == IF j = 0 THEN "m2.pull0" ELSE "m2.pull1"
            after == IF j = 0 THEN "m2.drain1" ELSE "m2.exit"
        IN \/ /\ pc = at
              /\ IF m2.ok[j]
                 THEN yield(m2.values[j], NoErr, body, after)
                 ELSE pc' = after /\ pend' = NoPend
              /\ UNCHANGED <<pull, m2>>
           \/ /\ pc = body
              /\ m2Pull(j, at, "m2.exit")
    /\ UNCHANGED <<mode, seqs, size, tree, tn, out, stopped>>

\* merge2 that returns without the deferred stop1().
M2StopFirst ==
    /\ pc = "m2.exit"
    /\ pull' = [pull EXCEPT ![0] = stop(@)]
    /\ pc' = "done"
    /\ UNCHANGED <<mode, seqs, size, tree, tn, m2, pend, out, stopped>>

\* merge2 returns: the deferred stop1() and stop0().
M2Stop ==
    /\ pc = "m2.exit"
    /\ pull' = [i \in Sources |-> stop(pull[i])]
    /\ pc' = "done"
    /\ UNCHANGED <<mode, seqs, size, tree, tn, m2, pend, out, stopped>>

(***************************************************************************)
(* The inputs of a merge.  Source i (counted from 1 here, as seqs is a     *)
(* sequence) yields values tagged with src = i, in the order of cmp.       *)
(***************************************************************************)
\* The sequences of n values of source s in order, with keys from lo up.
SortedVals(s, n, lo) ==
    { [j \in 1..n |-> Elem(f[j], s)] :
        f \in { g \in [1..n -> lo..MaxKey] : \A j \in 1..(n - 1) : g[j] <= g[j + 1] } }

\* The values paired with nil errors, in order.
RECURSIVE ItemVals(_)
ItemVals(its) ==
    IF its = <<>> THEN <<>>
    ELSE (IF Head(its).err = NoErr THEN <<Head(its).val>> ELSE <<>>)
         \o ItemVals(Tail(its))

\* The values of all the batches, in order.
RECURSIVE BatchVals(_)
BatchVals(bs) ==
    IF bs = <<>> THEN <<>> ELSE Head(bs).vals \o BatchVals(Tail(bs))

\* The number of pairs with a non-nil error (Items or Batches).
RECURSIVE ErrCount(_)
ErrCount(ps) ==
    IF ps = <<>> THEN 0
    ELSE (IF Head(ps).err # NoErr THEN 1 ELSE 0) + ErrCount(Tail(ps))

\* The number of pairs of a sequence of slices with no value and no error.
RECURSIVE EmptyCount(_)
EmptyCount(bs) ==
    IF bs = <<>> THEN 0
    ELSE (IF Head(bs).vals = <<>> /\ Head(bs).err = NoErr THEN 1 ELSE 0)
         + EmptyCount(Tail(bs))

\* The values source s of the call yields, whatever the mode.
SourceVals(md, sq) == IF md = "Merge" THEN ItemVals(sq) ELSE BatchVals(sq)

\* The single-value sequences of source s: at most nv values in order,
\* with keys from lo up, and at most ne errors, each paired with the zero
\* value or with a stale one.
RECURSIVE ItemSeqs(_, _, _, _)
ItemSeqs(s, lo, nv, ne) ==
    {<<>>}
    \cup (IF nv = 0 THEN {}
          ELSE UNION { { <<Item(Elem(k, s), NoErr)>> \o rest :
                           rest \in ItemSeqs(s, k, nv - 1, ne) } : k \in lo..MaxKey })
    \cup (IF ne = 0 THEN {}
          ELSE UNION { { <<Item(v, Err)>> \o rest :
                           rest \in ItemSeqs(s, lo, nv, ne - 1) } :
                       v \in {Zero, Elem(MaxKey, s)} })

\* The sequences of slices of source s: at most nv values in order, with
\* keys from lo up, cut into batches in every way, at most ne batches that
\* carry an error (with or without values) and at most nz batches with
\* nothing in them.
RECURSIVE BatchSeqs(_, _, _, _, _)
BatchSeqs(s, lo, nv, ne, nz) ==
    LET firsts == { p \in { Batch(vs, e) : vs \in UNION { SortedVals(s, n, lo) : n \in 0..nv },
                                           e \in {NoErr, Err} } :
                      /\ p.err # NoErr => ne > 0
                      /\ (p.vals = <<>> /\ p.err = NoErr) => nz > 0 }
    IN {<<>>}
       \cup UNION { { <<p>> \o rest :
                        rest \in BatchSeqs(s, IF p.vals = <<>> THEN lo ELSE p.vals[Len(p.vals)].key,
                                           nv - Len(p.vals),
                                           ne - (IF p.err # NoErr THEN 1 ELSE 0),
                                           nz - (IF p.vals = <<>> /\ p.err = NoErr THEN 1 ELSE 0)) } :
                    p \in firsts }

Min(a, b) == IF a < b THEN a ELSE b

\* The inputs of the sources s..k of a call in mode md: in total at most
\* nv values, ne errors and nz empty batches.
RECURSIVE Inputs(_, _, _, _, _, _)
Inputs(md, s, k, nv, ne, nz) ==
    IF s > k THEN {<<>>}
    ELSE UNION {
           { <<sq>> \o rest :
               rest \in Inputs(md, s + 1, k,
                               nv - Len(SourceVals(md, sq)),
                               ne - ErrCount(sq),
                               nz - (IF md = "Merge" THEN 0 ELSE EmptyCount(sq))) } :
           sq \in IF md = "Merge" THEN ItemSeqs(s, 0, Min(nv, MaxLen), ne)
                  ELSE BatchSeqs(s, 0, Min(nv, MaxLen), ne, nz) }

(***************************************************************************)
(* The specification: a call of MergeFunc or MergeSliceFunc on sources     *)
(* that report no error, with a consumer that may stop at any yield.       *)
(***************************************************************************)
InitCall(md, sq, sz) ==
    /\ mode = md
    /\ seqs = sq
    /\ size = sz
    /\ pull = [i \in 0..(Len(sq) - 1) |-> NewPull]
    /\ pc = "start"
    /\ tree = makeTree(0)
    /\ tn = NoTn
    /\ m2 = NoM2
    /\ pend = NoPend
    /\ out = <<>>
    /\ stopped = FALSE

Init ==
    \E md \in {"Merge", "MergeSlice"}, k \in 0..MaxK, sz \in {SmallBuffer, bufferSize} :
        \E sq \in Inputs(md, 1, k, MaxTotal, 0, 1) :
            InitCall(md, sq, sz)

Next ==
    \/ Dispatch
    \/ One
    \/ Deliver
    \/ TreeNext
    \/ TreeLoop
    \/ TreeStop
    \/ M2Next
    \/ M2Loop
    \/ M2Inner
    \/ M2Refill
    \/ M2Flush
    \/ M2Drain
    \/ M2Stop

Spec == Init /\ [][Next]_vars

\* The calls on sources that hold at most MaxFew values together, with up
\* to one empty batch for each source.  The program is one thread that
\* runs until the merge returns: a step that can be taken is taken.
InitFew ==
    \E md \in {"Merge", "MergeSlice"}, k \in 0..MaxK, sz \in {SmallBuffer, bufferSize} :
        \E sq \in Inputs(md, 1, k, MaxFew, 0, MaxK) :
            /\ \A i \in 1..k : md = "MergeSlice" => EmptyCount(sq[i]) <= 1
            /\ InitCall(md, sq, sz)

FairSpec == InitFew /\ [][Next]_vars /\ WF_vars(Next)

\* The calls on sources that yield finitely many pairs: up to MaxLive
\* values, one error and one empty batch.  The merge is one sequential
\* run, so that it always takes its next step.
InitLive ==
    \E md \in {"Merge", "MergeSlice"}, k \in 0..MaxK :
        \E sq \in Inputs(md, 1, k, MaxLive, 1, 1) :
            InitCall(md, sq, SmallBuffer)

LiveSpec == InitLive /\ [][Next]_vars /\ WF_vars(Next)

(***************************************************************************)
(* The same calls on sources that report errors: up to MaxErrs errors,     *)
(* and MaxTotal values and errors together.                                *)
(***************************************************************************)
InitErr ==
    \E md \in {"Merge", "MergeSlice"}, k \in 1..MaxK, sz \in {SmallBuffer, bufferSize} :
        \E ne \in 1..MaxErrs :
            \E sq \in Inputs(md, 1, k, MaxTotal - ne, ne, 0) :
                InitCall(md, sq, sz)

SpecErr == InitErr /\ [][Next]_vars

(***************************************************************************)
(* The calls of the tests of the repository, with bufferSize as it is.     *)
(***************************************************************************)
\* count(n): 0, 1, ..., n-1 (merge_test.go:29-37), as source s.
count(s, n) == [j \in 1..n |-> Item(Elem(j - 1, s), NoErr)]

\* it(s) of TestMerge2: the values of a slice, as source s.
it(s, ks) == [j \in 1..Len(ks) |-> Item(Elem(ks[j], s), NoErr)]

\* seq0 of TestMergeContinueAfterError2 and 3: 0..4, an error paired with
\* 0, 5..9.
seq0(s) == SubSeq(count(s, 10), 1, 5) \o <<Item(Zero, Err)>> \o SubSeq(count(s, 10), 6, 10)

TestMerge == { [i \in 1..n |-> count(i, i - 1)] : n \in 0..9 }

TestMerge2 == { <<it(1, <<0, 3>>), it(2, <<2, 5>>)>>, <<it(1, <<2, 5>>), it(2, <<0, 3>>)>> }

TestMergeContinueAfterError2 == <<seq0(1), count(2, 10)>>

TestMergeContinueAfterError3 == <<seq0(1), count(2, 10), seq0(3)>>

InitTests ==
    \E sq \in TestMerge \cup TestMerge2
              \cup {TestMergeContinueAfterError2, TestMergeContinueAfterError3} :
        InitCall("Merge", sq, bufferSize)

SpecTests == InitTests /\ [][Next]_vars

(***************************************************************************)
(* Calls on sources long enough to fill the output buffers of merge2 and   *)
(* of merge, with bufferSize as it is: source 1 counts from 0, source 2    *)
(* from 0 or from 1, so that the values come in pairs of equal ones with   *)
(* an even or an odd number of values before them.                         *)
(***************************************************************************)
\* lo, lo+1, ..., lo+n-1 as source s.
countFrom(s, lo, n) == [j \in 1..n |-> Item(Elem(lo + j - 1, s), NoErr)]

FillLens == {bufferSize \div 2, (bufferSize \div 2) + 1, bufferSize + 1}

InitFill ==
    \E n \in FillLens, lo \in 0..1, k \in 1..MaxK :
        InitCall("Merge",
                 [i \in 1..k |-> IF i = 1 THEN count(1, n)
                                 ELSE IF i = 2 THEN countFrom(2, lo, n)
                                 ELSE count(i, 1)],
                 bufferSize)

SpecFill == InitFill /\ [][Next]_vars

(***************************************************************************)
(* unbuffer(buffer(bufferSize, seq)) on its own: the batching adapter      *)
(* around one source that reports no error, un-batched again.  The source  *)
(* is 0, 1, ..., n-1 for the lengths around the size of the buffer, or any *)
(* short source with the small buffer.                                     *)
(***************************************************************************)
RoundTripLens ==
    {0, 1, bufferSize - 1, bufferSize, bufferSize + 1,
     2 * bufferSize, (2 * bufferSize) + 1}

InitRoundTrip ==
    /\ mode = "Merge"
    /\ \/ size = bufferSize /\ \E n \in RoundTripLens : seqs = <<count(1, n)>>
       \/ size = SmallBuffer /\ \E sq \in ItemSeqs(1, 0, MaxTotal, 0) : seqs = <<sq>>
    /\ pull = [i \in 0..0 |-> NewPull]
    /\ pc = "rt.next"
    /\ tree = makeTree(0)
    /\ tn = NoTn
    /\ m2 = NoM2
    /\ pend = NoPend
    /\ out = <<>>
    /\ stopped = FALSE

\* buffer runs to its next yield, which calls the function unbuffer passed
\* to it (merge.go:192), or to its end.
RtNext ==
    /\ pc = "rt.next"
    /\ LET r == buffer(seqs[1], pull[0])
       IN /\ pull' = [pull EXCEPT ![0] = r.st]
          /\ IF r.ok
             THEN yield(r.vals, r.err, "rt.next", "done")
             ELSE pc' = "done" /\ pend' = NoPend
    /\ UNCHANGED <<mode, seqs, size, tree, tn, m2, out, stopped>>

NextRoundTrip ==
    \/ RtNext
    \/ Deliver

SpecRoundTrip == InitRoundTrip /\ [][NextRoundTrip]_vars

(***************************************************************************)
(* buffer on its own, over sources that may fail: the batches it yields    *)
(* reach unbuffer as in the round trip above.                              *)
(***************************************************************************)
\* The sequence sq with an error put in before its pair number p.
withError(sq, p) ==
    SubSeq(sq, 1, p - 1) \o <<Item(Zero, Err)>> \o SubSeq(sq, p, Len(sq))

InitBuffer ==
    /\ mode = "Merge"
    /\ \/ /\ size = bufferSize
          /\ \E n \in RoundTripLens :
                \/ seqs = <<count(1, n)>>
                \/ \E p \in {1, bufferSize, n + 1} :
                      p <= n + 1 /\ seqs = <<withError(count(1, n), p)>>
       \/ /\ size = SmallBuffer
          /\ \E sq \in ItemSeqs(1, 0, MaxTotal, MaxErrs) : seqs = <<sq>>
    /\ pull = [i \in 0..0 |-> NewPull]
    /\ pc = "rt.next"
    /\ tree = makeTree(0)
    /\ tn = NoTn
    /\ m2 = NoM2
    /\ pend = NoPend
    /\ out = <<>>
    /\ stopped = FALSE

SpecBuffer == InitBuffer /\ [][NextRoundTrip]_vars

(***************************************************************************)
(* The matches of the loser tree on their own: one match between the node  *)
(* stored in a slot and a candidate, played by playGame as the build       *)
(* plays it (tree.go:61-62) or by the replay loop (tree.go:142-154), over  *)
(* every state two cursors can be in.  tree.nodes[0] holds the first node  *)
(* of the match (n1, the player stored in the slot) and tn.winner the      *)
(* second (n2, the winner carried upward).                                 *)
(***************************************************************************)
\* What a cursor of source s can hold when a match is played: values, an
\* error, or both.
GameCursors(s) ==
    {cursor(vs, e) :
        vs \in {<<>>} \cup UNION {SortedVals(s, n, 0) : n \in 1..MaxLen},
        e \in {NoErr, Err}} \ {cursor(<<>>, NoErr)}

\* The nodes a match is played between: the leaf of a cursor, the
\* sentinel, or the leaf of a cursor that ran out (winner.value = -1,
\* tree.go:132).
GameNodes(i) == {node(i + 2, i), Vacant, node(i + 2, -1)}

InitGames ==
    /\ mode = "MergeSlice"
    /\ seqs = <<<<>>, <<>>>>
    /\ size = SmallBuffer
    /\ pull = [i \in 0..1 |-> NewPull]
    /\ pc = "game"
    /\ \E c0 \in GameCursors(1), c1 \in GameCursors(2),
          n1 \in GameNodes(0), n2 \in GameNodes(1) :
          /\ tree = [makeTree(2) EXCEPT !.cursors = [i \in 0..1 |-> IF i = 0 THEN c0 ELSE c1],
                                        !.nodes[0] = n1]
          /\ tn = [NoTn EXCEPT !.winner = n2]
    /\ m2 = NoM2
    /\ pend = NoPend
    /\ out = <<>>
    /\ stopped = FALSE

\* loser, winner := t.playGame(n1, n2, cmp); t.nodes[i] = loser; return
\* winner (tree.go:58-63): the build plays no match between two nodes
\* without an index, and every node it meets is a leaf or the sentinel.
GamePlay ==
    /\ pc = "game"
    /\ ~(tree.nodes[0].index < 0 /\ tn.winner.index < 0)
    /\ tree.nodes[0] # node(2, -1) /\ tn.winner # node(3, -1)
    /\ LET g == playGame(tree.cursors, tree.nodes[0], tn.winner)
       IN /\ tree' = [tree EXCEPT !.nodes[0] = g.loser, !.winner = g.winner]
          /\ pc' = IF g.oob THEN "panic" ELSE "game.played"
    /\ UNCHANGED <<mode, seqs, size, pull, tn, m2, pend, out, stopped>>

\* One round of the replay loop at the root (tree.go:142-158): the winner
\* carried upward is a leaf, with value -1 when its source ran out.
GameReplay ==
    /\ pc = "game"
    /\ tn.winner.index >= 0
    /\ LET r == replay(tree.cursors, tree.nodes, tn.winner, 0)
       IN /\ tree' = [tree EXCEPT !.nodes = r.nodes, !.winner = r.winner]
          /\ pc' = "game.replayed"
    /\ UNCHANGED <<mode, seqs, size, pull, tn, m2, pend, out, stopped>>

NextGames ==
    \/ GamePlay
    \/ GameReplay

SpecGames == InitGames /\ [][NextGames]_vars

(***************************************************************************)
(* nextNonEmptyValues on its own: the cursor of one source of slices that  *)
(* may deliver empty batches and errors is refilled until the source ends. *)
(***************************************************************************)
InitPulls ==
    /\ mode = "MergeSlice"
    /\ \E sq \in BatchSeqs(1, 0, MaxLen, MaxErrs, MaxEmpty) : seqs = <<sq>>
    /\ size = SmallBuffer
    /\ pull = [i \in 0..0 |-> NewPull]
    /\ pc = "pull.next"
    /\ tree = makeTree(1)
    /\ tn = NoTn
    /\ m2 = NoM2
    /\ pend = NoPend
    /\ out = <<>>
    /\ stopped = FALSE

\* The refill of a cursor (tree.go:97-104, 127-134): the result is stored
\* in the cursor when ok, and the cursor is stopped otherwise.
PullNext ==
    /\ pc = "pull.next"
    /\ \E r \in {nextNonEmptyValues(mode, seqs[1], pull[0])} :
          IF r.ok
          THEN /\ tree' = [tree EXCEPT !.cursors[0] = cursor(r.vals, r.err)]
               /\ pull' = [pull EXCEPT ![0] = r.st]
               /\ pc' = "pull.next"
          ELSE /\ tree' = [tree EXCEPT !.count = @ - 1]
               /\ pull' = [pull EXCEPT ![0] = stop(r.st)]
               /\ pc' = "pull.end"
    /\ UNCHANGED <<mode, seqs, size, tn, m2, pend, out, stopped>>

NextPulls == PullNext

SpecPulls == InitPulls /\ [][NextPulls]_vars

(***************************************************************************)
(* parent, left and right on their own (tree.go:172-182): from a slot i    *)
(* (tn.n) one step down to a child and one step up again.  tn.winner holds *)
(* the slot the walk is at (index) and the slot it came from (value).      *)
(***************************************************************************)
InitIndex ==
    /\ mode = "MergeSlice"
    /\ seqs = <<>>
    /\ size = SmallBuffer
    /\ pull = <<>>
    /\ pc = "index"
    /\ tree = makeTree(0)
    /\ \E i \in 0..MaxIndex : tn = [NoTn EXCEPT !.n = i, !.winner = node(i, i)]
    /\ m2 = NoM2
    /\ pend = NoPend
    /\ out = <<>>
    /\ stopped = FALSE

IndexLeft ==
    /\ pc = "index"
    /\ tn' = [tn EXCEPT !.winner = node(left(tn.n), tn.n)]
    /\ pc' = "index.left"
    /\ UNCHANGED <<mode, seqs, size, pull, tree, m2, pend, out, stopped>>

IndexRight ==
    /\ pc = "index"
    /\ tn' = [tn EXCEPT !.winner = node(right(tn.n), tn.n)]
    /\ pc' = "index.right"
    /\ UNCHANGED <<mode, seqs, size, pull, tree, m2, pend, out, stopped>>

IndexParent ==
    /\ pc \in {"index", "index.left", "index.right"}
    /\ tn' = [tn EXCEPT !.winner = node(parent(tn.winner.index), tn.winner.index)]
    /\ pc' = "index.parent"
    /\ UNCHANGED <<mode, seqs, size, pull, tree, m2, pend, out, stopped>>

NextIndex ==
    \/ IndexLeft
    \/ IndexRight
    \/ IndexParent

SpecIndex == InitIndex /\ [][NextIndex]_vars

(***************************************************************************)
(* The heap of iterators (heap.go).  A slice h is the sequence of its      *)
(* elements: h[i] of the code is h[i + 1] here.  Of an iterator the heap   *)
(* looks at the item only.                                                 *)
(***************************************************************************)
iterator(v) == [item |-> v]

\* h[i], h[j] = h[j], h[i]
swap(h, i, j) == [h EXCEPT ![i + 1] = h[j + 1], ![j + 1] = h[i + 1]]

\* The loop of down (heap.go:40-54) from slot i on: the slice after it
\* and the slot it ends at.
RECURSIVE downLoop(_, _, _)
\* The loop of down that never looks at the right child.
downLoopLeft(h, i, n) ==
    LET j == (2 * i) + 1
    IN IF j >= n \/ j < 0
       THEN [h |-> h, i |-> i]
       ELSE IF cmp(h[j + 1].item, h[i + 1].item) >= 0
       THEN [h |-> h, i |-> i]
       ELSE downLoop(swap(h, i, j), j, n)

downLoop(h, i, n) ==
    LET j1 == (2 * i) + 1
        j2 == j1 + 1
        j  == IF j2 < n /\ cmp(h[j2 + 1].item, h[j1 + 1].item) < 0 THEN j2 ELSE j1
    IN IF j1 >= n \/ j1 < 0
       THEN [h |-> h, i |-> i]
       ELSE IF cmp(h[j + 1].item, h[i + 1].item) >= 0
       THEN [h |-> h, i |-> i]
       ELSE downLoop(swap(h, i, j), j, n)

\* down(h, i0, n, cmp): the slice after it and what it returns.
down(h, i0, n) ==
    [h |-> downLoop(h, i0, n).h, moved |-> downLoop(h, i0, n).i > i0]

\* The loop of heapify (heap.go:9-11) from slot i down to slot 0.
RECURSIVE heapifyFrom(_, _)
heapifyFrom(h, i) ==
    IF i < 0 THEN h ELSE heapifyFrom(down(h, i, Len(h)).h, i - 1)

heapify(h) == heapifyFrom(h, quo(Len(h), 2) - 1)

\* pop(h, cmp) on a slice that is not empty: the slice h after it, of
\* which the code returns h[:n].
pop(h) == down(swap(h, 0, Len(h) - 1), 0, Len(h) - 1).h

\* The slices of up to MaxHeap iterators: tn.buf is the array under the
\* slice and tn.n the length of the slice; seqs[1] keeps the items as
\* they were.
InitHeap ==
    /\ mode = "Merge"
    /\ \E n \in 0..MaxHeap :
          \E ks \in [1..n -> 0..MaxKey] :
             /\ seqs = <<[j \in 1..n |-> Item(Elem(ks[j], j), NoErr)]>>
             /\ tn = [NoTn EXCEPT !.buf = [j \in 1..n |-> iterator(Elem(ks[j], j))],
                                  !.n = n]
    /\ size = SmallBuffer
    /\ pull = [i \in 0..0 |-> NewPull]
    /\ pc = "heap"
    /\ tree = makeTree(0)
    /\ m2 = NoM2
    /\ pend = NoPend
    /\ out = <<>>
    /\ stopped = FALSE

Heapify ==
    /\ pc = "heap"
    /\ tn' = [tn EXCEPT !.buf = heapify(tn.buf)]
    /\ pc' = "heap.ready"
    /\ UNCHANGED <<mode, seqs, size, pull, tree, m2, pend, out, stopped>>

\* h = pop(h, cmp); on an empty slice h[0] is out of range.
Pop ==
    /\ pc \in {"heap.ready", "heap.popped"}
    /\ IF tn.n = 0
       THEN pc' = "panic" /\ tn' = tn
       ELSE /\ tn' = [tn EXCEPT !.buf = pop(SubSeq(tn.buf, 1, tn.n))
                                         \o SubSeq(tn.buf, tn.n + 1, Len(tn.buf)),
                                !.n = tn.n - 1]
            /\ pc' = "heap.popped"
    /\ UNCHANGED <<mode, seqs, size, pull, tree, m2, pend, out, stopped>>

NextHeap ==
    \/ Heapify
    \/ Pop

SpecHeap == InitHeap /\ [][NextHeap]_vars

(***************************************************************************)
(* What the claims speak about.                                            *)
(***************************************************************************)
\* The values the consumer was handed, in the order it was handed them.
OutVals == IF mode = "Merge" THEN ItemVals(out) ELSE BatchVals(out)

\* The errors the consumer was handed.
OutErrs == ErrCount(out)

\* All the values of all the sources.
AllVals == Concat([i \in 1..K |-> SourceVals(mode, seqs[i])])

\* The errors all the sources report when they are read to their end.
AllErrs == SumLen([i \in 1..K |-> SelectSeq(seqs[i], LAMBDA p : p.err # NoErr)])

\* The merge has returned and the consumer never asked it to stop.
Finished == pc = "done" /\ ~stopped

\* s is the reference sort of the values of all the sources.
IsMergeOfAll(s) == IsSorted(s) /\ BagOf(s) = BagOf(AllVals)

\* C1: with three or more sources that report no error, each in order,
\* whatever their lengths and batches, a merge that ran to its end has
\* handed the consumer all the values of all the sources, each as often
\* as the sources hold it, in the order of cmp.
C1_KWayOrdering ==
    (Finished /\ K >= 3 /\ AllErrs = 0) => IsMergeOfAll(OutVals)

\* C1 witness: a finished merge of three sources, one of them empty and
\* one cut into two batches, with two sources holding the same key.
C1_Witness ==
    /\ Finished /\ K = 3 /\ mode = "MergeSlice" /\ Len(OutVals) = 4
    /\ \E i \in 1..3 : seqs[i] = <<>>
    /\ \E i \in 1..3 : Len(seqs[i]) = 2 /\ Len(BatchVals(seqs[i])) = 2
    /\ \E i \in 1..3 : OutVals[i].key = OutVals[i + 1].key /\ OutVals[i].src # OutVals[i + 1].src

\* C2: with two sources that report no error, each in order and in any
\* batches, a merge that ran to its end has handed the consumer the values
\* of both sources, each as often as they hold it, in the order of cmp.
C2_TwoSourceOrdering ==
    (Finished /\ K = 2 /\ AllErrs = 0) => IsMergeOfAll(OutVals)

\* The keys of a sequence of values.
Keys(vs) == [j \in 1..Len(vs) |-> vs[j].key]

\* C3: with exactly one source the consumer is handed the pairs of that
\* source, values and errors, as they are and in their order: at any time
\* what it was handed is a prefix of the source, and all of it when the
\* merge has ended without a stop.
C3_Identity ==
    K = 1 => /\ Len(out) <= Len(seqs[1])
             /\ out = Take(seqs[1], Len(out))
             /\ (Finished => out = seqs[1])

\* C3 witness: a finished merge of one source that reported an error
\* paired with a value that is not the zero value, between two values.
C3_Witness ==
    /\ Finished /\ K = 1 /\ mode = "Merge" /\ Len(out) = 3
    /\ out[2].err # NoErr /\ out[2].val # Zero

\* No source yields a value or an error.
NoInput == AllVals = <<>> /\ AllErrs = 0

\* C4: a merge of no source hands the consumer nothing and returns; a
\* merge of sources that yield no value (and no error) hands the consumer
\* no value and no error and returns, on every path.
C4_Emptiness ==
    /\ [](NoInput => OutVals = <<>> /\ OutErrs = 0 /\ (K = 0 => out = <<>>))
    /\ (NoInput ~> pc = "done")

\* C4 witness: a merge of three sources with no value, one of which
\* yields an empty batch, has returned.
C4_Witness ==
    /\ NoInput /\ K = 3 /\ pc = "done"
    /\ \E i \in 1..3 : seqs[i] # <<>>

\* The step appends to the output buffer of merge2: it is a comparison of
\* the heads v0 and v1.
M2Appends == pc \in {"m2.inner", "m2.cmp"} /\ Len(m2'.buffer) > Len(m2.buffer)

M2Head(j) == m2.values[j][m2.i[j] + 1]

\* C5: a comparison in merge2 that finds the heads equal writes the head
\* of the first source and right after it the head of the second, and
\* moves both sources on by one; and a value of the second source is
\* only written ahead of the head of the first when it compares lower.
C5_TieOrder ==
    [][M2Appends =>
         /\ cmp(M2Head(0), M2Head(1)) = 0 =>
               /\ m2'.buffer = m2.buffer \o <<M2Head(0), M2Head(1)>>
               /\ m2'.i = [j \in 0..1 |-> m2.i[j] + 1]
         /\ m2'.buffer[offset + 1] = M2Head(1) => cmp(M2Head(0), M2Head(1)) > 0]_vars

\* C5 witness: the output buffer of merge2 ends with two equal keys, of
\* the first source and then of the second.
C5_Witness ==
    /\ pc = "m2.inner" /\ offset >= 2
    /\ m2.buffer[offset - 1].key = m2.buffer[offset].key
    /\ m2.buffer[offset - 1].src = 1 /\ m2.buffer[offset].src = 2
    /\ m2.i[0] >= 1 /\ m2.i[1] >= 1

\* C6: with two or more sources and a consumer that never stops, the
\* consumer is handed as many errors as the sources reported.
C6_NoErrorLost ==
    (Finished /\ K >= 2) => OutErrs = AllErrs

\* C6 witness: two of three sources reported one error each and the
\* consumer was handed two.
C6_Witness ==
    /\ Finished /\ K = 3 /\ OutErrs = 2
    /\ \E i, j \in 1..3 : i # j /\ ErrCount(seqs[i]) = 1 /\ ErrCount(seqs[j]) = 1

\* Every source was read to its end.
AllRead == \A i \in Sources : pull[i].pos = Len(seqs[i + 1])

\* C7: with two or more sources, a merge the consumer did not stop only
\* returns when every source was read to its end, errors or not, and the
\* consumer was then handed every value of every source, those after an
\* error included.
C7_ErrorNotFatal ==
    K >= 2 =>
        /\ (pc \in {"tree.exit", "m2.exit", "done"} /\ ~stopped) => AllRead
        /\ Finished => BagOf(AllVals) \sqsubseteq BagOf(OutVals)

\* C7 witness: a finished merge handed the consumer a value that its
\* source yielded after an error.
C7_Witness ==
    /\ Finished /\ K >= 2 /\ AllRead
    /\ \E i \in 1..K : \E j \in 1..(Len(seqs[i]) - 1) :
          /\ seqs[i][j].err # NoErr
          /\ SourceVals(mode, SubSeq(seqs[i], j + 1, Len(seqs[i]))) # <<>>
          /\ \A v \in Range(SourceVals(mode, SubSeq(seqs[i], j + 1, Len(seqs[i])))) :
                \E n \in 1..Len(OutVals) : OutVals[n] = v

\* C8: Merge of 0,1,2,3,4,<error>,5,...,9 and 0,1,...,9 hands the consumer
\* the error once and the twenty values as 0,0,1,1,...,9,9.
C8_ErrorContinuation ==
    (Finished /\ seqs = TestMergeContinueAfterError2) =>
        /\ OutErrs = 1
        /\ Keys(OutVals) = [j \in 1..20 |-> (j - 1) \div 2]

\* C8 witness: that merge has run to its end.
C8_Witness ==
    Finished /\ seqs = TestMergeContinueAfterError2 /\ Len(out) = 21

\* C9: Merge of three or more sources that report errors between their
\* values hands the consumer, errors left out, the reference sort of all
\* the values of all the sources.
C9_KWayWithErrors ==
    (Finished /\ K >= 3 /\ mode = "Merge") => IsMergeOfAll(OutVals)

\* C9 witness: a finished Merge of three sources, two of which reported
\* an error before their last value.
C9_Witness ==
    /\ Finished /\ K = 3 /\ mode = "Merge" /\ Len(OutVals) >= 2
    /\ \E i, j \in 1..3 :
          /\ i # j
          /\ \A n \in {i, j} : /\ Len(seqs[n]) >= 2
                               /\ seqs[n][Len(seqs[n]) - 1].err # NoErr
                               /\ seqs[n][Len(seqs[n])].err = NoErr

\* Every error the consumer of a single-value merge was handed is paired
\* with the zero value.
ErrorsCarryZero ==
    \A j \in 1..Len(out) : out[j].err # NoErr => out[j].val = Zero

\* C10 as claimed: for any number of sources, an error handed to the
\* consumer of Merge/MergeFunc is paired with the zero value.
C10_Claimed == mode = "Merge" => ErrorsCarryZero

\* C10: for any number of sources but one, an error handed to the consumer
\* of Merge/MergeFunc is paired with the zero value, whatever value the
\* source paired with it.
C10_ZeroWithError == (mode = "Merge" /\ K # 1) => ErrorsCarryZero

\* C10 witness: the consumer of a merge of two or more sources was handed
\* an error, and no source paired its error with the zero value.
C10_Witness ==
    /\ mode = "Merge" /\ K >= 2 /\ OutErrs >= 1
    /\ \A i \in 1..K : \A j \in 1..Len(seqs[i]) :
          seqs[i][j].err # NoErr => seqs[i][j].val # Zero

\* C11: with two or more sources, when the merge has returned, after the
\* last source ran out or after the consumer stopped it at any delivery,
\* stop was called for every source, those never read to their end
\* included.
C11_ReleaseOnExit ==
    (pc = "done" /\ K >= 2) => \A i \in Sources : pull[i].stops >= 1

\* C11 witness: the consumer stopped a merge of two sources at the error
\* of the first pull, and the source that was never pulled was stopped.
C11_Witness ==
    /\ pc = "done" /\ stopped /\ K = 2 /\ out # <<>>
    /\ out[Len(out)].err # NoErr
    /\ \E i \in Sources : /\ pull[i].calls = 0 /\ seqs[i + 1] # <<>>
                           /\ pull[i].stops >= 1

\* C12: when a merge of three or more sources has returned, after the
\* last source ran out or after a stop of the consumer, stop was called
\* exactly once for every source, however many had run out before.
C12_ReleaseOnce ==
    (pc = "done" /\ K >= 3) => \A i \in Sources : pull[i].stops = 1

\* The consumer is about to be handed a pair.
Offering ==
    /\ ~stopped
    /\ \/ pc = "yield"
       \/ pc = "one" /\ pull[0].pos < Len(seqs[1])

\* The pair the consumer is about to be handed: it is fixed before the
\* consumer answers.
Offered ==
    IF pc = "one" THEN seqs[1][pull[0].pos + 1]
    ELSE IF mode = "MergeSlice" THEN Batch(pend.vals, pend.err)
    ELSE IF pend.err # NoErr THEN Item(Zero, pend.err)
    ELSE Item(Head(pend.vals), NoErr)

\* The consumer is handed the pair and answers that the merge goes on.
GoesOn == Next /\ ~stopped' /\ out' = Append(out, Offered)

\* C13: a consumer that stops after n pairs was handed the first n pairs
\* of the run that goes to the end.  The merge is one sequential run whose
\* only choice is the answer of the consumer: wherever a pair is handed
\* over, the run that goes on is handed the same pair, the pair does not
\* depend on the answer, and after a stop the consumer is handed nothing
\* more.
C13_EarlyStopPrefix ==
    /\ [](Offering => ENABLED GoesOn)
    /\ [][/\ out' # out => (Offering /\ out' = Append(out, Offered))
          /\ stopped => (out' = out /\ pc' # "panic")]_vars

\* C13 witness: the consumer of a merge of three sources stopped at the
\* second pair and the merge has returned.
C13_Witness ==
    /\ pc = "done" /\ stopped /\ K = 3 /\ Len(out) = 2 /\ Len(AllVals) >= 3

\* C14: once the consumer has answered stop, on a value or on an error,
\* it is never called again and no source is pulled again: no source is
\* read further and next is called on none.
C14_StopHalts ==
    /\ [](stopped => pc \notin {"yield", "panic"})
    /\ [][stopped => \A i \in Sources :
                        /\ pull'[i].pos = pull[i].pos
                        /\ pull'[i].calls = pull[i].calls]_vars

\* C14 witness: the consumer stopped at an error while a source had pairs
\* left, and the merge has returned with these pairs unread.
C14_Witness ==
    /\ pc = "done" /\ stopped /\ K >= 2 /\ out # <<>>
    /\ out[Len(out)].err # NoErr
    /\ \E i \in Sources : pull[i].calls > 0 /\ pull[i].pos < Len(seqs[i + 1])

\* The merge has used up the batch source j delivered last when it comes
\* to pull it.  In merge2 the batch was read to its end, or has just been
\* yielded whole.  In the tree the view of the cursor is empty; a round
\* of the loop of tree.next first takes the head of the winner, so there
\* the source is the winner and its view holds at most that head.
Consumed(j) ==
    IF K = 2
    THEN \/ m2.i[j] = Len(m2.values[j])
         \/ pc = (IF j = 0 THEN "m2.pull0" ELSE "m2.pull1")
    ELSE /\ K >= 3
         /\ IF pc = "tree.loop"
            THEN j = tn.winner.value /\ Len(tree.cursors[j].values) <= 1
            ELSE tree.cursors[j].values = <<>>

\* C15: next is only called on a source when the merge has used up the
\* batch that source delivered last.
C15_PullWhenConsumed ==
    [][\A j \in Sources : pull'[j].calls > pull[j].calls => Consumed(j)]_vars

\* C15 witness: in a merge of two sources the first was pulled a second
\* time, its batch read to the end, while the batch of the second is only
\* partly read and was not pulled again.
C15_Witness ==
    /\ K = 2 /\ pc = "m2.refill1"
    /\ pull[0].calls = 2 /\ pull[1].calls = 1
    /\ m2.values[0] # <<>>
    /\ m2.i[1] > 0 /\ m2.i[1] < Len(m2.values[1])

\* C16: un-batching the batches of the batching adapter around a source
\* that reports no error hands the consumer the values of the source in
\* their order, none lost and none repeated, whatever the length of the
\* source is against the size of the buffer.
C16_RoundTrip ==
    /\ Len(out) <= Len(seqs[1])
    /\ \A j \in 1..Len(out) : out[j].err = NoErr /\ out[j].val = seqs[1][j].val
    /\ Finished => Len(out) = Len(seqs[1])

\* C16 witness: a source of twice the size of the buffer and one more
\* value went through to its end.
C16_Witness ==
    /\ Finished /\ size = bufferSize
    /\ Len(seqs[1]) = (2 * bufferSize) + 1 /\ Len(out) = Len(seqs[1])

\* Cursor i is active in tree t: its leaf has not been vacated.
Active(t, i) == t.nodes[i + K].value >= 0

\* w is the champion of t: it names an active cursor whose head is not
\* above the head of any other active cursor.
Champion(t, w) ==
    /\ w.value \in Sources
    /\ Active(t, w.value)
    /\ t.cursors[w.value].values # <<>>
    /\ \A j \in Sources :
          (Active(t, j) /\ j # w.value) =>
             /\ t.cursors[j].values # <<>>
             /\ cmp(t.cursors[w.value].values[1], t.cursors[j].values[1]) <= 0

\* The winner tree.next holds after the build or after a replay step: the
\* local winner while the loop goes on, t.winner once it is stored.
Built ==
    /\ K >= 3
    /\ \/ pc = "tree.loop"
       \/ pc \in {"yield", "tree.next"} /\ tree.winner.index >= 0

BuiltWinner == IF pc = "tree.loop" THEN tn.winner ELSE tree.winner

\* Some source has reported an error to the merge.
ErrorSeen == \E i \in Sources : \E p \in 1..pull[i].pos : seqs[i + 1][p].err # NoErr

\* w is the champion of t when sources may fail: a cursor that holds an
\* error or has nothing in view goes first, whatever the heads.
ChampionOrPending(t, w) ==
    /\ w.value \in Sources
    /\ Active(t, w.value)
    /\ \/ t.cursors[w.value].values = <<>>
       \/ t.cursors[w.value].err # NoErr
       \/ \A j \in Sources :
            (Active(t, j) /\ j # w.value /\ t.cursors[j].values # <<>>) =>
               cmp(t.cursors[w.value].values[1], t.cursors[j].values[1]) <= 0

C18_Exhausted ==
    /\ [](K >= 3 => (tree.count = 0 => tree.winner.value = -1))
    /\ [][(K >= 3 /\ pc = "tree.next" /\ tree.count = 0) =>
             /\ pc' = "tree.exit"
             /\ pull' = pull /\ tree' = tree /\ out' = out /\ pend' = pend]_vars

C18_Witness ==
    /\ K >= 3 /\ pc = "tree.next" /\ tree.count = 0
    /\ tree.winner.index >= 0 /\ Len(out) > 0 /\ ~stopped

\* The merge over the tree is between two calls of tree.next, or past
\* the last one.
BetweenCalls == K >= 3 /\ pc \in {"yield", "tree.next", "tree.exit", "done"}

\* Cursor j has been pulled and its source was not found exhausted.
ActivePulled(j) == Active(tree, j) /\ pull[j].calls > 0

Occ(x) == Cardinality({j \in 1..Len(out) : out[j] = Item(x, NoErr)})

DeliveredErrs == Cardinality({j \in 1..Len(out) : out[j].err # NoErr})

\* The values source s yields before its pair number p, and the times x
\* is among them.
ValuesBefore(s, p) == Cardinality({q \in 1..(p - 1) : seqs[s][q].err = NoErr})

OccBefore(s, p, x) == Cardinality({q \in 1..(p - 1) : seqs[s][q] = Item(x, NoErr)})

\* The errors of the sources: <<s, p>> when pair p of source s is an error.
ErrPos ==
    UNION {{<<s, p>> : p \in {q \in 1..Len(seqs[s]) : seqs[s][q].err # NoErr}} :
           s \in 1..K}

\* Every error lies between two values of its source.
ErrsBetween ==
    \A sp \in ErrPos :
       /\ ValuesBefore(sp[1], sp[2]) > 0
       /\ \E q \in (sp[2] + 1)..Len(seqs[sp[1]]) : seqs[sp[1]][q].err = NoErr

\* The errors whose source has had every value before them delivered.
ErrsDue ==
    {sp \in ErrPos :
       \A q \in 1..(sp[2] - 1) :
          seqs[sp[1]][q].err = NoErr =>
             Occ(seqs[sp[1]][q].val) >= OccBefore(sp[1], sp[2], seqs[sp[1]][q].val)}

\* The errors whose source has had a value after them delivered: a value
\* the source yields after the error and not before it.
ErrsPassed ==
    {sp \in ErrPos :
       \E q \in (sp[2] + 1)..Len(seqs[sp[1]]) :
          /\ seqs[sp[1]][q].err = NoErr
          /\ OccBefore(sp[1], sp[2], seqs[sp[1]][q].val) = 0
          /\ Occ(seqs[sp[1]][q].val) > 0}

\* C20 as claimed: under Merge, an error a source reports between two of
\* its values is delivered after every value the source produced before
\* it and before any value the source produces after it: the errors
\* delivered are no more than the errors that are due and no fewer than
\* the errors that values have passed.
C20_ErrorPosition ==
    (mode = "Merge" /\ ErrsBetween) =>
       /\ DeliveredErrs <= Cardinality(ErrsDue)
       /\ DeliveredErrs >= Cardinality(ErrsPassed)

\* C20: under Merge, an error a source reports is delivered before any
\* value the source produces after it: the errors delivered are no fewer
\* than the errors that values have passed.
C20_ErrorBeforeLater ==
    mode = "Merge" => DeliveredErrs >= Cardinality(ErrsPassed)

C20_Witness ==
    /\ mode = "Merge" /\ K >= 2 /\ ErrsBetween /\ Finished
    /\ ErrPos # {} /\ ErrsPassed = ErrPos
    /\ DeliveredErrs = Cardinality(ErrPos)

\* merge2 has left its loop with source j (0 or 1) still open and the
\* other source exhausted, and is about to yield values[j] (merge.go:281,
\* 287).
Draining(j) ==
    /\ K = 2 /\ AllErrs = 0
    /\ pc = (IF j = 0 THEN "m2.drain0" ELSE "m2.drain1")
    /\ m2.ok[j] /\ ~m2.ok[1 - j]

\* The values of source j (0 or 1) handed to the consumer so far.
EmittedOf(j) == Cardinality({q \in 1..Len(OutVals) : OutVals[q].src = j + 1})

\* C21: when one of the two sources is exhausted, what merge2 yields from
\* then on is the remainder of the other source: every batch it yields
\* is the values of that source that come next after those emitted so
\* far, unchanged and in order, none of them a second time.
C21_FlushRemainder ==
    \A j \in 0..1 :
       Draining(j) =>
          /\ EmittedOf(j) + Len(m2.values[j]) <= Len(SourceVals(mode, seqs[j + 1]))
          /\ \A q \in 1..Len(m2.values[j]) :
                m2.values[j][q] = SourceVals(mode, seqs[j + 1])[EmittedOf(j) + q]

\* C22: in merge2 the pull of the next batch of one source leaves the
\* batch and the read offset of the other source as they are, and as long
\* as a source is not pulled the read offset into its batch does not
\* decrease.
C22_OffsetsKept ==
    [][K = 2 =>
         \A j \in 0..1 :
            pull'[j].calls = pull[j].calls =>
               /\ m2'.values[j] = m2.values[j]
               /\ m2'.ok[j] = m2.ok[j]
               /\ m2'.i[j] >= m2.i[j]]_vars

\* Node n names a cursor that holds values and no error.
Clean(n) ==
    /\ n.value >= 0
    /\ tree.cursors[n.value].values # <<>>
    /\ tree.cursors[n.value].err = NoErr

\* The head of the cursor node n names.
head(n) == tree.cursors[n.value].values[1]

\* C23: between two occupied nodes n1 and n2 whose cursors hold values and
\* no error, playGame makes n1 the winner and n2 the loser exactly when
\* cmp(head(n1), head(n2)) < 0, and n2 the winner and n1 the loser
\* otherwise, the equal heads included.
C23_TieBreak ==
    [][(pc = "game" /\ pc' = "game.played" /\ Clean(tree.nodes[0]) /\ Clean(tn.winner)) =>
         IF cmp(head(tree.nodes[0]), head(tn.winner)) < 0
         THEN tree'.winner = tree.nodes[0] /\ tree'.nodes[0] = tn.winner
         ELSE tree'.winner = tn.winner /\ tree'.nodes[0] = tree.nodes[0]]_vars

C23_Witness ==
    /\ pc = "game.played"
    /\ tree.winner = node(3, 1) /\ tree.nodes[0] = node(2, 0)
    /\ Clean(tree.winner) /\ Clean(tree.nodes[0])
    /\ cmp(head(tree.nodes[0]), head(tree.winner)) = 0

\* A match has just been played, by playGame or by the replay loop,
\* between n1 = tree.nodes[0] and n2 = tn.winner.
Played == pc = "game" /\ pc' \in {"game.played", "game.replayed"}

\* C24: in every match of the build and of the replay a vacant node
\* (value < 0) loses to a node that names a cursor, whichever side it is
\* on, and the winner is vacant only when both nodes are.
C24_VacancyLoses ==
    [][Played =>
         /\ (tree.nodes[0].value >= 0 /\ tn.winner.value < 0) =>
               (tree'.winner = tree.nodes[0] /\ tree'.nodes[0] = tn.winner)
         /\ (tree.nodes[0].value < 0 /\ tn.winner.value >= 0) =>
               (tree'.winner = tn.winner /\ tree'.nodes[0] = tree.nodes[0])
         /\ tree'.winner.value < 0 =>
               (tree.nodes[0].value < 0 /\ tn.winner.value < 0)]_vars

C24_Witness ==
    /\ pc = "game.replayed"
    /\ tn.winner = node(3, -1)
    /\ tree.winner = node(2, 0) /\ tree.nodes[0] = node(3, -1)

\* C25: for every stored node and carried candidate and every state of
\* their cursors, the match of the replay loop picks the winner and the
\* loser that playGame(stored, carried) picks.
C25_ReplayAsBuild ==
    [][(pc = "game" /\ pc' = "game.replayed") =>
         /\ tree'.winner = playGame(tree.cursors, tree.nodes[0], tn.winner).winner
         /\ tree'.nodes[0] = playGame(tree.cursors, tree.nodes[0], tn.winner).loser]_vars

\* The internal slots above slot i, up to the root.
RECURSIVE Ancestors(_)
Ancestors(i) == IF i <= 0 THEN {} ELSE {parent(i)} \cup Ancestors(parent(i))

\* C26: one round of the loop of tree.next (the champion is advanced and
\* the games are replayed) changes the cursor of the champion, the leaf
\* of the champion and the slots above that leaf, and leaves every other
\* slot and the batch view and error of every other cursor as they are.
C26_ReplayFrame ==
    [][(K >= 3 /\ pc = "tree.loop") =>
         /\ \A j \in Sources :
               j # tn.winner.value => tree'.cursors[j] = tree.cursors[j]
         /\ \A slot \in 0..(2 * K - 1) :
               slot \notin ({tn.winner.index} \cup Ancestors(tn.winner.index)) =>
                  tree'.nodes[slot] = tree.nodes[slot]]_vars

\* C26 witness: a round has written a value of one source and the replay
\* has made another source the winner.
C26_Witness ==
    /\ K >= 3 /\ pc = "tree.loop" /\ Len(tn.buf) >= 1
    /\ tn.winner.value >= 0
    /\ tn.winner.value # tn.buf[Len(tn.buf)].src - 1
    /\ \E slot \in Ancestors(tn.winner.index) : tree.nodes[slot].value >= 0

\* Three sources that hold one value each, all of the same key.
ThreeEqualHeads ==
    /\ K = 3
    /\ \E k \in 0..MaxKey :
          \A i \in 1..3 : SourceVals(mode, seqs[i]) = <<Elem(k, i)>>

\* C27: with more than two sources equal values do not come in the order
\* of the sources, and the order they come in is fixed by the inputs: of
\* three sources with one and the same head the merge hands over the
\* value of the third source, then that of the second, then that of the
\* first, on every run and as far as the run goes.
C27_TieOrder ==
    ThreeEqualHeads =>
       /\ Len(OutVals) <= 3
       /\ \A j \in 1..Len(OutVals) : OutVals[j].src = 4 - j
       /\ Finished => Len(OutVals) = 3

C27_Witness ==
    /\ ThreeEqualHeads /\ Finished
    /\ OutVals[1].src = 3 /\ OutVals[2].src = 2 /\ OutVals[3].src = 1
    /\ cmp(OutVals[1], OutVals[3]) = 0

\* The sources whose next() has reported the end (ok = false).
Exhausted == {i \in Sources : pull[i].done}

\* C28: once the tree is made, t.count is the number of the sources that
\* have not reported their end -- K before the first pull -- and the
\* number of the leaves that are not vacant: it goes down by one with
\* every source that ends, in the step that vacates the leaf of that
\* source, and is never negative.
C28_ActiveCount ==
    (K >= 3 /\ pc # "start") =>
       /\ tree.count = K - Cardinality(Exhausted)
       /\ tree.count = Cardinality({i \in Sources : Active(tree, i)})
       /\ tree.count >= 0

C28_Witness ==
    /\ K >= 3 /\ pc = "tree.loop"
    /\ tree.count = 1 /\ Cardinality(Exhausted) = K - 1
    /\ \E i \in Sources : pull[i].calls >= 2 /\ pull[i].done

\* merge has made the tree over its K sources and has not called
\* tree.next yet.
TreeMade ==
    /\ K # 1 /\ K # 2
    /\ pc = "tree.next"
    /\ \A i \in Sources : pull[i].calls = 0

\* C29: makeTree over K sources makes 2K node slots and K cursors: the
\* slots 0..K-1 hold the sentinel (index -1, value -1), the slot K+i
\* holds (index K+i, value i) for every i in 0..K-1, count is K and
\* winner is the sentinel.
C29_InitialLayout ==
    TreeMade =>
       /\ DOMAIN tree.nodes = 0..(2 * K - 1)
       /\ DOMAIN tree.cursors = 0..(K - 1)
       /\ \A i \in 0..(K - 1) :
             /\ tree.nodes[i] = [index |-> -1, value |-> -1]
             /\ tree.nodes[K + i] = [index |-> K + i, value |-> i]
       /\ tree.count = K
       /\ tree.winner = [index |-> -1, value |-> -1]

C29_Witness ==
    /\ TreeMade /\ K = 3
    /\ tree.nodes[5] = [index |-> 5, value |-> 2]
    /\ tree.nodes[2] = [index |-> -1, value |-> -1]
    /\ tree.count = 3

\* The number of pairs of the one source of the round trip.
SourceLen == Len(seqs[1])

\* C30: every batch buffer yields without an error holds between 1 and
\* size values (size is 128 in the build); from a source that reports no
\* error every batch but the last holds exactly size values, the batches
\* hold the values of the source one after the other, and the last batch
\* is a partial one exactly when the number of values is not a multiple
\* of size.
C30_BatchSizes ==
    [][pc = "rt.next" =>
         /\ (pc' = "yield" /\ pend'.err = NoErr) => Len(pend'.vals) \in 1..size
         /\ (AllErrs = 0) =>
               /\ pc' \in {"yield", "done"}
               /\ pc' = "yield" =>
                     /\ pull'[0].pos = pull[0].pos + Len(pend'.vals)
                     /\ Len(pend'.vals) =
                           IF pull'[0].pos < SourceLen \/ SourceLen % size = 0
                           THEN size ELSE SourceLen % size
               /\ pc' = "done" => pull[0].pos = SourceLen]_vars

\* C30 witness: of 129 values buffer has yielded a batch of 128, which
\* the consumer has been handed, and now yields the one value left.
C30_Witness ==
    /\ size = bufferSize /\ SourceLen = bufferSize + 1 /\ AllErrs = 0
    /\ pc = "yield" /\ Len(pend.vals) = 1 /\ Len(out) = bufferSize
    /\ pull[0].fin

\* The batch number p of the one source holds no value and no error.
EmptyBatch(p) == seqs[1][p].vals = <<>> /\ seqs[1][p].err = NoErr

\* C31: a call of nextNonEmptyValues discards only batches that are empty
\* and carry no error; when it reports ok it returns the first batch that
\* has a value or an error, as the source delivered it, never an empty
\* batch with no error; and it reports not ok only when the source is
\* exhausted.
C31_SkipsEmpty ==
    [][pc = "pull.next" =>
         /\ pull'[0].pos >= pull[0].pos
         /\ \A p \in (pull[0].pos + 1)..(pull'[0].pos - 1) : EmptyBatch(p)
         /\ pc' = "pull.next" =>
               /\ pull'[0].pos > pull[0].pos
               /\ tree'.cursors[0] = cursor(seqs[1][pull'[0].pos].vals,
                                              seqs[1][pull'[0].pos].err)
               /\ ~EmptyBatch(pull'[0].pos)
         /\ pc' = "pull.end" =>
               /\ pull'[0].pos = Len(seqs[1])
               /\ \A p \in (pull[0].pos + 1)..Len(seqs[1]) : EmptyBatch(p)
               /\ tree'.cursors[0] = tree.cursors[0]]_vars

\* C31 witness: two empty batches in a row were skipped and the batch
\* after them, which has values, is in the cursor.
C31_Witness ==
    /\ pc = "pull.next" /\ pull[0].pos >= 3
    /\ EmptyBatch(pull[0].pos - 1) /\ EmptyBatch(pull[0].pos - 2)
    /\ tree.cursors[0].values # <<>>
    /\ pull[0].calls = pull[0].pos

\* The step is a return of tree.next to merge.
TreeReturns == pc \in {"tree.next", "tree.loop"} /\ pc' \in {"yield", "tree.exit"}

\* C32: every merge of sources that yield finitely many pairs returns,
\* with no source, one, two or more; and every call of tree.next that
\* returns has emitted a value, or returns an error, or has no cursor left
\* with every source at its end.
C32_Termination ==
    /\ <>(pc = "done")
    /\ [][TreeReturns =>
            \/ pc' = "yield" /\ (pend'.vals # <<>> \/ pend'.err # NoErr)
            \/ /\ pc' = "tree.exit"
               /\ tree'.count = 0
               /\ \A i \in Sources : pull'[i].done]_vars

\* C32 witness: a merge of three sources, with an error and an empty
\* batch among what they yield, has returned after the consumer accepted
\* everything.
C32_Witness ==
    /\ Finished /\ K = 3 /\ AllErrs = 1 /\ Len(AllVals) = MaxLive
    /\ mode = "MergeSlice" /\ \E i \in 1..K : EmptyCount(seqs[i]) = 1
    /\ tree.count = 0

\* How often cursor j is named by the winner w and by the internal slots
\* 0..K-1 of t.
Named(t, w, j) ==
    Cardinality({slot \in 0..(K - 1) : t.nodes[slot].value = j})
    + (IF w.value = j THEN 1 ELSE 0)

\* C33: after the build and after every replay each active cursor is
\* named exactly once by the winner and the internal slots 0..K-1, and
\* every node that names a cursor v, the winner included, has the index
\* K+v of the leaf of v.
C33_Bookkeeping ==
    Built =>
       /\ \A j \in Sources : Active(tree, j) => Named(tree, BuiltWinner, j) = 1
       /\ \A slot \in 0..(2 * K - 1) :
             tree.nodes[slot].value >= 0 =>
                tree.nodes[slot].index = K + tree.nodes[slot].value
       /\ BuiltWinner.value >= 0 => BuiltWinner.index = K + BuiltWinner.value

\* C33 witness: a source of three has ended, the replay has made another
\* the winner, and the one that lost to it is in an internal slot.
C33_Witness ==
    /\ K = 3 /\ pc = "tree.loop" /\ tree.count = 2 /\ Len(tn.buf) >= 1
    /\ tn.winner.value >= 0
    /\ \E slot \in 0..(K - 1) : tree.nodes[slot].value >= 0
    /\ \E slot \in 0..(K - 1) :
          tree.nodes[slot].value < 0 /\ tree.nodes[slot].index >= 0

\* The active cursors whose leaf is slot c or lies below slot c.
Under(c) ==
    {j \in Sources : Active(tree, j) /\ (K + j = c \/ c \in Ancestors(K + j))}

\* The head of cursor j.
HeadOf(j) == tree.cursors[j].values[1]

\* Cursor v is a best one of the set S of cursors: it has a head, and no
\* cursor of S has a head below it.
BestOf(S, v) ==
    /\ v \in S
    /\ tree.cursors[v].values # <<>>
    /\ \A j \in S : /\ tree.cursors[j].values # <<>>
                    /\ cmp(HeadOf(v), HeadOf(j)) <= 0

\* Cursor v is the loser of the match of slot i: a best cursor of one
\* child subtree of i, with a best cursor of the other child subtree at or
\* below it.
LoserAt(i, v) ==
    \E c \in {left(i), right(i)} :
       \E d \in {left(i), right(i)} \ {c} :
          /\ BestOf(Under(c), v)
          /\ \E u \in Under(d) : BestOf(Under(d), u) /\ cmp(HeadOf(u), HeadOf(v)) <= 0

Pending(j) == tree.cursors[j].values = <<>> \/ tree.cursors[j].err # NoErr

\* Cursor u goes before cursor v: it is pending, or its head is at or
\* below the head of v.
GoesBefore(u, v) ==
    \/ Pending(u)
    \/ /\ tree.cursors[v].values # <<>>
       /\ cmp(HeadOf(u), HeadOf(v)) <= 0

\* Cursor v is the loser of the match of slot i when sources may fail: it
\* goes before every cursor of its own child subtree, and a cursor of the
\* other child subtree goes before it.
LoserOrPendingAt(i, v) ==
    \E c \in {left(i), right(i)} :
       \E d \in {left(i), right(i)} \ {c} :
          /\ v \in Under(c)
          /\ \A j \in Under(c) : GoesBefore(v, j)
          /\ \E u \in Under(d) : GoesBefore(u, v)

C35_NoEmptyBatch ==
    (mode = "MergeSlice" /\ K >= 2) =>
       \A p \in 1..Len(out) : out[p].vals # <<>> \/ out[p].err # NoErr

\* C36: left(i) = 2i+1 and right(i) = 2i+2, parent leads from both back
\* to i, for every slot i >= 0, and parent(i) is (i-1)/2 with the
\* division truncated toward zero, so that parent(0) = 0.
C36_IndexArithmetic ==
    /\ pc = "index.left" => tn.winner.index = (2 * tn.n) + 1
    /\ pc = "index.right" => tn.winner.index = (2 * tn.n) + 2
    /\ (pc = "index.parent" /\ tn.winner.value # tn.n) => tn.winner.index = tn.n
    /\ (pc = "index.parent" /\ tn.winner.value = tn.n) =>
          /\ tn.n = 0 => tn.winner.index = 0
          /\ tn.n > 0 => (tn.n - 1) - (2 * tn.winner.index) \in {0, 1}

\* C36 witness: the parent of slot 22, the right child of slot 10, is
\* slot 10 (TestParent).
C36_Witness ==
    /\ pc = "index.parent" /\ tn.n = 10
    /\ tn.winner = node(10, 22)

\* The nodes of the tree: the slots, the stored winner and the winner the
\* loop of tree.next works on.
TreeNodes ==
    {tree.nodes[slot] : slot \in 0..(2 * K - 1)} \cup {tree.winner, tn.winner}

\* C37 as claimed: in every reachable state of the tree every slot and the
\* winner have index -1 exactly when they have value -1.
C37_SentinelsAgree ==
    (K >= 3 /\ pc # "start") => \A n \in TreeNodes : n.index = -1 <=> n.value = -1

\* C37: in every reachable state of the tree every slot and the winner
\* with index -1 have value -1, every leaf slot has index -1 exactly when
\* it has value -1, and a node with value -1 and an index is the winner
\* whose source ran out or what the replay stored of it in an internal
\* slot: its index is that of a vacated leaf.
C37_SentinelsOneWay ==
    (K >= 3 /\ pc # "start") =>
       /\ \A n \in TreeNodes :
             /\ n.index >= -1 /\ n.value >= -1
             /\ n.index = -1 => n.value = -1
             /\ (n.index >= 0 /\ n.value = -1) =>
                   (n.index \in K..(2 * K - 1) /\ tree.nodes[n.index] = Vacant)
       /\ \A slot \in K..(2 * K - 1) :
             tree.nodes[slot].index = -1 <=> tree.nodes[slot].value = -1

\* C37 witness: the source of the winner ran out and the replay has put
\* the winner, with its index and the value -1, in an internal slot.
C37_Witness ==
    /\ K = 3 /\ pc = "tree.loop" /\ tree.count = 2
    /\ \E slot \in 0..(K - 1) :
          tree.nodes[slot].value = -1 /\ tree.nodes[slot].index >= K
    /\ tn.winner.value >= 0

\* The pair at hand is a batch that merge2 yields from its output buffer
\* (merge.go:237, 277).
FromBuffer == K = 2 /\ pc = "yield" /\ pend.ret \in {"m2.cmp", "m2.drain0"}

\* C38: in merge2 the write offset into the output buffer is between 0 and
\* its length (128), a pair of equal values is written only where two
\* slots are free, and every batch yielded from the buffer holds between 1
\* and 128 values; every batch merge yields holds at most 128 values.
C38_BufferBounds ==
    /\ [](K = 2 => (offset >= 0 /\ offset <= size))
    /\ [][(K = 2 /\ Len(m2'.buffer) = Len(m2.buffer) + 2) =>
             Len(m2.buffer) + 2 <= size]_vars
    /\ [](FromBuffer => (pend.err = NoErr /\ Len(pend.vals) \in 1..size))
    /\ []((K >= 3 /\ pc = "yield") => Len(pend.vals) <= size)

\* C38 witness: merge2 yields a full output buffer of 128 values, the
\* last two of them an equal pair, while both sources have more.
C38_Witness ==
    /\ FromBuffer /\ size = bufferSize /\ Len(pend.vals) = bufferSize
    /\ pend.ret = "m2.cmp"
    /\ cmp(pend.vals[bufferSize - 1], pend.vals[bufferSize]) = 0

\* The first n elements of h are in heap order: no element is below its
\* parent.
HeapOrder(h, n) ==
    \A i \in 1..(n - 1) : cmp(h[quo(i - 1, 2) + 1].item, h[i + 1].item) <= 0

\* The iterators the slice was made of.
HeapInput == [j \in 1..Len(seqs[1]) |-> iterator(seqs[1][j].val)]

\* C39: after heapify the slice is in heap order and is a permutation of
\* what it was; pop on a heap that is not empty puts a least element, the
\* one at the front, in the last position, leaves the others in the first
\* len(h)-1 positions, which it returns, and these are in heap order again.
C39_HeapOrder ==
    /\ [](pc = "heap.ready" =>
            /\ HeapOrder(tn.buf, tn.n)
            /\ BagOf(tn.buf) = BagOf(HeapInput))
    /\ [][(pc \in {"heap.ready", "heap.popped"} /\ tn.n > 0) =>
            /\ pc' = "heap.popped"
            /\ tn'.n = tn.n - 1
            /\ tn'.buf[tn.n] = tn.buf[1]
            /\ \A q \in 1..tn.n : cmp(tn.buf[1].item, tn.buf[q].item) <= 0
            /\ BagOf(SubSeq(tn'.buf, 1, tn'.n)) = BagOf(SubSeq(tn.buf, 2, tn.n))
            /\ \A q \in (tn.n + 1)..Len(tn.buf) : tn'.buf[q] = tn.buf[q]
            /\ HeapOrder(tn'.buf, tn'.n)]_vars

\* C39 witness: a slice of five iterators that began with its greatest
\* item and was not in heap order has been made a heap and popped twice.
C39_Witness ==
    /\ pc = "heap.popped" /\ Len(tn.buf) = MaxHeap /\ tn.n = MaxHeap - 2
    /\ ~HeapOrder(HeapInput, MaxHeap)
    /\ HeapInput[1].item.key = MaxKey
    /\ tn.buf[MaxHeap].item.key = 0 /\ tn.buf[MaxHeap - 1].item.key = 1

====
